---- MODULE Spec2Model ----
(***************************************************************************)
(* The surrogate transformer stack of ml_surrogates: the trajectory        *)
(* container (engines/holographic_state.py), the attention primitives      *)
(* (models/attention_modules.py), the encoder                              *)
(* (models/holographic_encoder.py), the decoder                            *)
(* (models/resonance_decoder.py) and the model (models/irh_transformer.py).*)
(*                                                                         *)
(* Numbers.  Couplings are integers.  A scale k is an integer count of     *)
(* units of 1e-12, so that SCALE_DIFF_TOLERANCE is 1 unit.  A quotient of  *)
(* two numbers is kept as the pair [num, den] the code divides.  A tensor  *)
(* is [shape, rows]: its numpy shape and one symbolic value per row; a     *)
(* symbolic value is a record whose field op names the numpy operation     *)
(* that produced it.  A Python exception is a value [err |-> its class].   *)
(***************************************************************************)
EXTENDS Integers, Sequences, FiniteSets, TLC

VARIABLES
    heap,        \* the CouplingState objects that exist: object id -> fields
    trajectory,  \* HolographicState.trajectory: a list of object ids
    metadata,    \* HolographicState.metadata: step index -> beta triple
    ret,         \* the last operation and what it returned or raised
    before,      \* history: what the previous call returned, when it and the
                 \* last call were both made on the trajectory as it is now
    supplied,    \* history: the beta_functions argument of the call that
                 \* appended each trajectory index (None for index 0)
    model,       \* the module object under use (an encoder, a model, ...)
    rng,         \* numpy's global generator: the number of randn calls so far
    fixed_point, \* HolographicState.fixed_point: None or an object id
    action,      \* HolographicState.action: None or a number
    clone,       \* the HolographicState that state.copy() returned to the
                 \* caller, if any: its trajectory, metadata, fixed_point
                 \* and action, its object ids being those of the one heap
    calls,       \* the forward calls under way, one per thread: where the
                 \* call is and its local variables
    bundle       \* the arrays of a graph the caller is building: rows of
                 \* node features, rows of edge features, adjacency rows

vars == <<heap, trajectory, metadata, ret, before, supplied, model, rng,
          fixed_point, action, clone, calls, bundle>>

----------------------------------------------------------------------------
(* Bounds of the model *)

MaxLen == 3         \* longest trajectory built in Spec
MaxThreads == 2     \* threads that call forward on the one model
MaxAttNodes == 2    \* nodes of a graph GraphAttention is called on
MaxAttEdges == 2    \* edges of such a graph
MaxTrajNodes == 3   \* states of a trajectory whose graph is encoded

Threads == 1..MaxThreads

(* Program constants *)

SCALE_DIFF_TOLERANCE == 1   \* 1e-12, in the unit of k

----------------------------------------------------------------------------
(* Values *)

None == [op |-> "None"]

Some(v) == [op |-> "Some", val |-> v]

Raise(cls) == [err |-> cls]

IsErr(r) == r.err # "none"

Abs(x) == IF x < 0 THEN -x ELSE x

Max(a, b) == IF a >= b THEN a ELSE b

Min(a, b) == IF a <= b THEN a ELSE b

\* v = e, then K(v): one statement after another, e being computed once
Then(e, K(_)) == CHOOSE r \in {K(v) : v \in {e}} : TRUE

\* Python's float division a / b
Div(a, b) == [num |-> a, den |-> b]

Num(a) == [num |-> a, den |-> 1]

\* numpy.array(list of equally long rows)
NpArray(rows) ==
    [err   |-> "none",
     shape |-> IF rows = <<>> THEN <<0>> ELSE <<Len(rows), Len(rows[1])>>,
     rows  |-> rows]

Tensor(shape, rows) == [err |-> "none", shape |-> shape, rows |-> rows]

\* ndarray.reshape(0, w): defined for an array of no elements only
Reshape0(t, w) ==
    IF t.rows = <<>> THEN Tensor(<<0, w>>, <<>>)
    ELSE Raise("ValueError")

----------------------------------------------------------------------------
(* engines/holographic_state.py *)

CouplingState(l, g, m, k, level) ==
    [lambda_tilde |-> l, gamma_tilde |-> g, mu_tilde |-> m, k |-> k,
     level |-> level]

\* CouplingState.to_array
to_array(s) == <<Num(s.lambda_tilde), Num(s.gamma_tilde), Num(s.mu_tilde), Num(s.k)>>

\* The states the simulator hands in: two coupling triples at three scales
\* (scale differences 0, 1 = the tolerance, 2 and 3 units, of either sign).
InputTriples == {<<10, 10, 10>>, <<11, 13, 16>>}
InputScales == {0, 1, 3}
InputStates ==
    {CouplingState(c[1], c[2], c[3], k, 0) : c \in InputTriples, k \in InputScales}

\* The rate-of-change triples a caller may supply with a step
InputBetas == {<<5, 6, 7>>}

\* the state at trajectory index i (0-based, as in the code)
StateAt(h, t, i) == h[t[i + 1]]

beta_key_in(md, i) == i \in DOMAIN md

\* The edge feature of the transition i -> i+1, lines 226-241
EdgeFeatureSkipGuard(h, t, md, i) ==
    IF beta_key_in(md, i + 1)
    THEN <<Num(md[i + 1][1]), Num(md[i + 1][2]), Num(md[i + 1][3])>>
    ELSE LET curr == StateAt(h, t, i + 1)
             prev_ == StateAt(h, t, i)
             dk   == curr.k - prev_.k
         IN  IF Abs(dk) >= SCALE_DIFF_TOLERANCE
             THEN <<Div(curr.lambda_tilde - prev_.lambda_tilde, dk),
                    Div(curr.gamma_tilde - prev_.gamma_tilde, dk),
                    Div(curr.mu_tilde - prev_.mu_tilde, dk)>>
             ELSE <<Num(0), Num(0), Num(0)>>

EdgeFeature(h, t, md, i) ==
    IF beta_key_in(md, i + 1)
    THEN <<Num(md[i + 1][1]), Num(md[i + 1][2]), Num(md[i + 1][3])>>
    ELSE LET curr == StateAt(h, t, i + 1)
             prev_ == StateAt(h, t, i)
             dk   == curr.k - prev_.k
         IN  IF Abs(dk) > SCALE_DIFF_TOLERANCE
             THEN <<Div(curr.lambda_tilde - prev_.lambda_tilde, dk),
                    Div(curr.gamma_tilde - prev_.gamma_tilde, dk),
                    Div(curr.mu_tilde - prev_.mu_tilde, dk)>>
             ELSE <<Num(0), Num(0), Num(0)>>

\* the empty list becomes an array of shape (0, w), lines 245-246
EmptyOrArrayNoReshape(rows, w) == NpArray(rows)

EmptyOrArray(rows, w) ==
    IF rows # <<>> THEN NpArray(rows) ELSE Reshape0(NpArray(<<>>), w)

\* HolographicState.to_graph_representation
to_graph_representation(h, t, md) ==
    LET num_steps     == Len(t)
        node_features == NpArray([i \in 1..num_steps |-> to_array(h[t[i]])])
        edge_features == [j \in 1..(num_steps - 1) |-> EdgeFeature(h, t, md, j - 1)]
        adjacency     == [j \in 1..(num_steps - 1) |-> <<j - 1, j>>]
    IN  IF \E j \in 1..(num_steps - 1) : \E c \in 1..3 : edge_features[j][c].den = 0
        THEN Raise("ZeroDivisionError")
        ELSE [err |-> "none",
              node_features |-> node_features,
              edge_features |-> EmptyOrArray(edge_features, 3),
              adjacency     |-> EmptyOrArray(adjacency, 2),
              num_nodes     |-> num_steps]

\* HolographicState.__init__(initial_couplings)
InitState(s) ==
    /\ heap = <<s>>
    /\ trajectory = <<1>>
    /\ metadata = <<>>
    /\ ret = [op |-> "__init__", val |-> None]
    /\ before = [op |-> "none", val |-> None]
    /\ supplied = <<None>>
    /\ fixed_point = None
    /\ action = None
    /\ clone = None
    /\ calls = [t \in Threads |-> [pc |-> "idle", state |-> None,
                                   encoding |-> None,
                                   encoder_metadata |-> None,
                                   predictions |-> None, value |-> None]]
    /\ bundle = [node_features |-> <<>>, edge_features |-> <<>>,
                 adjacency |-> <<>>]

\* HolographicState.add_rg_step(new_couplings, beta_functions), new_couplings
\* being the object o of the heap h
add_rg_step(h, o, beta) ==
    LET level == Len(trajectory)
    IN  /\ heap' = [h EXCEPT ![o].level = level]
        /\ trajectory' = Append(trajectory, o)
        /\ metadata' = IF beta # None
                       THEN [i \in (DOMAIN metadata) \cup {level} |->
                                IF i = level THEN beta.val ELSE metadata[i]]
                       ELSE metadata
        /\ ret' = [op |-> "add_rg_step", val |-> None]
        /\ before' = [op |-> "none", val |-> None]
        /\ supplied' = Append(supplied, beta)
        /\ UNCHANGED <<model, rng, fixed_point, action, clone, calls, bundle>>

\* add_rg_step with a CouplingState the caller has just made
AddNewStep(S, B, max) ==
    /\ Len(trajectory) < max
    /\ \E s \in S : \E beta \in {None} \cup {Some(b) : b \in B} :
          add_rg_step(Append(heap, s), Len(heap) + 1, beta)

\* add_rg_step with a CouplingState object that is in the trajectory already
AddSameStep(B, max) ==
    /\ Len(trajectory) < max
    /\ \E o \in DOMAIN heap : \E beta \in {None} \cup {Some(b) : b \in B} :
          add_rg_step(heap, o, beta)

\* a call op on the trajectory returned or raised val; nothing else changes
Returns(op, val) ==
    /\ ret' = [op |-> op, val |-> val]
    /\ before' = ret
    /\ UNCHANGED <<heap, trajectory, metadata, supplied, model, rng,
                 fixed_point, action, clone, calls, bundle>>

\* a call of to_graph_representation
ToGraph ==
    Returns("to_graph_representation",
            to_graph_representation(heap, trajectory, metadata))

\* The caller constructs a CouplingState: an object that no trajectory holds
MakeCouplingState(S, max) ==
    /\ Len(heap) < max
    /\ \E s \in S : heap' = Append(heap, s)
    /\ ret' = [op |-> "CouplingState", val |-> None]
    /\ before' = [op |-> "none", val |-> None]
    /\ UNCHANGED <<trajectory, metadata, supplied, model, rng, fixed_point,
                   action, clone, calls, bundle>>

\* (a change equal to the tolerance counts as converged too)
check_fixed_pointAtTolerance(h, t, fp, tolerance) ==
    IF Len(t) < 2 THEN [val |-> FALSE, fixed_point |-> fp]
    ELSE LET current  == h[t[Len(t)]]
             previous == h[t[Len(t) - 1]]
             delta_lambda == Abs(current.lambda_tilde - previous.lambda_tilde)
             delta_gamma  == Abs(current.gamma_tilde - previous.gamma_tilde)
             delta_mu     == Abs(current.mu_tilde - previous.mu_tilde)
         IN  IF Max(Max(delta_lambda, delta_gamma), delta_mu) <= tolerance
             THEN [val |-> TRUE, fixed_point |-> Some(t[Len(t)])]
             ELSE [val |-> FALSE, fixed_point |-> fp]

\* HolographicState.check_fixed_point(tolerance) on the state of trajectory t
\* and fixed point fp: what it returns and the fixed_point it leaves
check_fixed_point(h, t, fp, tolerance) ==
    IF Len(t) < 2 THEN [val |-> FALSE, fixed_point |-> fp]
    ELSE LET current  == h[t[Len(t)]]
             previous == h[t[Len(t) - 1]]
             delta_lambda == Abs(current.lambda_tilde - previous.lambda_tilde)
             delta_gamma  == Abs(current.gamma_tilde - previous.gamma_tilde)
             delta_mu     == Abs(current.mu_tilde - previous.mu_tilde)
         IN  IF Max(Max(delta_lambda, delta_gamma), delta_mu) < tolerance
             THEN [val |-> TRUE, fixed_point |-> Some(t[Len(t)])]
             ELSE [val |-> FALSE, fixed_point |-> fp]

\* the tolerances a caller passes: at and above the largest change, 6, that
\* consecutive input states show, and so above the change 0 of a repeated one
Tolerances == {6, 7}

\* state.check_fixed_point(tolerance)
CheckFixedPoint ==
    \E tolerance \in Tolerances :
        LET r == check_fixed_point(heap, trajectory, fixed_point, tolerance)
        IN  /\ fixed_point' = r.fixed_point
            /\ ret' = [op |-> "check_fixed_point", arg |-> tolerance,
                       val |-> r.val]
            /\ before' = [op |-> "none", val |-> None]
            /\ UNCHANGED <<heap, trajectory, metadata, supplied, model, rng,
                           action, clone, calls, bundle>>

\* the sum of the squares of the three couplings
Squares(s) ==
    s.lambda_tilde * s.lambda_tilde + s.gamma_tilde * s.gamma_tilde
        + s.mu_tilde * s.mu_tilde

RECURSIVE SumSquares(_, _, _)
SumSquares(h, t, i) ==
    IF i > Len(t) THEN 0 ELSE Squares(h[t[i]]) + SumSquares(h, t, i + 1)

\* HolographicState.compute_action: the value assigned to self.action
compute_action(h, t, fp) ==
    IF fp # None THEN Num(Squares(h[fp.val]))
    ELSE Div(SumSquares(h, t, 1), Len(t))

\* state.compute_action(), once in a run
ComputeAction ==
    LET a == compute_action(heap, trajectory, fixed_point)
    IN  /\ action = None
        /\ action' = Some(a)
        /\ ret' = [op |-> "compute_action", val |-> a]
        /\ before' = [op |-> "none", val |-> None]
        /\ UNCHANGED <<heap, trajectory, metadata, supplied, model, rng,
                       fixed_point, clone, calls, bundle>>

----------------------------------------------------------------------------
(* models/attention_modules.py *)

\* np.random.randn(*shape) * scale: the r-th draw from the global generator
Randn(shape, r) == [op |-> "randn", shape |-> shape, draw |-> r]

\* a constructor returned obj, the generator having advanced to r
Built(obj, r) == [err |-> "none", obj |-> obj, rng |-> r]

\* a constructor raised cls, the generator having advanced to r
Failed(cls, r) == [err |-> cls, rng |-> r]

\* MultiHeadAttention.__init__(embed_dim, num_heads), generator at r
NewMultiHeadAttentionUnchecked(embed_dim, num_heads, r) ==
    Built([cls       |-> "MultiHeadAttention",
           embed_dim |-> embed_dim,
           num_heads |-> num_heads,
           head_dim  |-> embed_dim \div num_heads,
           W_q       |-> Randn(<<embed_dim, embed_dim>>, r),
           W_k       |-> Randn(<<embed_dim, embed_dim>>, r + 1),
           W_v       |-> Randn(<<embed_dim, embed_dim>>, r + 2),
           W_o       |-> Randn(<<embed_dim, embed_dim>>, r + 3)],
          r + 4)

NewMultiHeadAttention(embed_dim, num_heads, r) ==
    IF embed_dim % num_heads # 0
    THEN Failed("ValueError", r)
    ELSE Built([cls       |-> "MultiHeadAttention",
                embed_dim |-> embed_dim,
                num_heads |-> num_heads,
                head_dim  |-> embed_dim \div num_heads,
                W_q       |-> Randn(<<embed_dim, embed_dim>>, r),
                W_k       |-> Randn(<<embed_dim, embed_dim>>, r + 1),
                W_v       |-> Randn(<<embed_dim, embed_dim>>, r + 2),
                W_o       |-> Randn(<<embed_dim, embed_dim>>, r + 3)],
               r + 4)

\* np.dot(x, W) for x of shape (batch, seq_len, d)
Dot3(x, W) ==
    IF x.shape[3] # W.shape[1] THEN Raise("ValueError")
    ELSE Tensor(<<x.shape[1], x.shape[2], W.shape[2]>>,
                [b \in 1..x.shape[1] |-> [i \in 1..x.shape[2] |->
                    [op |-> "dot", W |-> W, x |-> x.rows[b][i]]]])

\* MultiHeadAttention._split_heads: reshape to (batch, seq_len, num_heads, head_dim)
split_heads(mha, x) ==
    IF mha.num_heads * mha.head_dim # x.shape[3] THEN Raise("ValueError")
    ELSE [err |-> "none",
          shape |-> <<x.shape[1], mha.num_heads, x.shape[2], mha.head_dim>>,
          rows |-> x.rows]

\* (the keys must be as many as the queries)
MultiHeadAttention_forwardSameLength(mha, query, key_, value_) ==
    LET key   == IF key_ = None THEN query ELSE key_
        value == IF value_ = None THEN key ELSE value_
    IN  Then(Dot3(query, mha.W_q), LAMBDA Q :
        Then(Dot3(key, mha.W_k), LAMBDA K :
        Then(Dot3(value, mha.W_v), LAMBDA V :
        IF IsErr(Q) \/ IsErr(K) \/ IsErr(V) THEN Raise("ValueError")
        ELSE
        Then(split_heads(mha, Q), LAMBDA Qh :
        Then(split_heads(mha, K), LAMBDA Kh :
        Then(split_heads(mha, V), LAMBDA Vh :
        IF IsErr(Qh) \/ IsErr(Kh) \/ IsErr(Vh) THEN Raise("ValueError")
        \* scores = Q K^T: batch and head_dim must agree
        ELSE IF Qh.shape[1] # Kh.shape[1] THEN Raise("ValueError")
        ELSE IF Kh.shape[3] # Qh.shape[3] THEN Raise("ValueError")
        \* _softmax: np.max over an empty key axis
        ELSE IF Kh.shape[3] = 0 THEN Raise("ValueError")
        \* context = weights V: the key and value lengths must agree
        ELSE IF Kh.shape[3] # Vh.shape[3] \/ Kh.shape[1] # Vh.shape[1]
        THEN Raise("ValueError")
        ELSE Tensor(<<Qh.shape[1], Qh.shape[3], mha.embed_dim>>,
                    [b \in 1..Qh.shape[1] |-> [i \in 1..Qh.shape[3] |->
                        [op |-> "attention",
                         W  |-> mha.W_o,
                         q  |-> Q.rows[b][i],
                         k  |-> K.rows[b],
                         v  |-> V.rows[b]]]])))))))

\* MultiHeadAttention.forward(query, key, value) without a mask; key and
\* value are None or tensors (batch, seq_len_k, embed_dim)
MultiHeadAttention_forward(mha, query, key_, value_) ==
    LET key   == IF key_ = None THEN query ELSE key_
        value == IF value_ = None THEN key ELSE value_
    IN  Then(Dot3(query, mha.W_q), LAMBDA Q :
        Then(Dot3(key, mha.W_k), LAMBDA K :
        Then(Dot3(value, mha.W_v), LAMBDA V :
        IF IsErr(Q) \/ IsErr(K) \/ IsErr(V) THEN Raise("ValueError")
        ELSE
        Then(split_heads(mha, Q), LAMBDA Qh :
        Then(split_heads(mha, K), LAMBDA Kh :
        Then(split_heads(mha, V), LAMBDA Vh :
        IF IsErr(Qh) \/ IsErr(Kh) \/ IsErr(Vh) THEN Raise("ValueError")
        \* scores = Q K^T: batch and head_dim must agree
        ELSE IF Qh.shape[1] # Kh.shape[1] THEN Raise("ValueError")
        \* _softmax: np.max over an empty key axis
        ELSE IF Kh.shape[3] = 0 THEN Raise("ValueError")
        \* context = weights V: the key and value lengths must agree
        ELSE IF Kh.shape[3] # Vh.shape[3] \/ Kh.shape[1] # Vh.shape[1]
        THEN Raise("ValueError")
        ELSE Tensor(<<Qh.shape[1], Qh.shape[3], mha.embed_dim>>,
                    [b \in 1..Qh.shape[1] |-> [i \in 1..Qh.shape[3] |->
                        [op |-> "attention",
                         W  |-> mha.W_o,
                         q  |-> Q.rows[b][i],
                         k  |-> K.rows[b],
                         v  |-> V.rows[b]]]])))))))

\* GraphAttention.__init__(node_dim, edge_dim, num_heads), generator at r
NewGraphAttention(node_dim, edge_dim, num_heads, r) ==
    Built([cls       |-> "GraphAttention",
           node_dim  |-> node_dim,
           edge_dim  |-> edge_dim,
           num_heads |-> num_heads,
           W_node    |-> Randn(<<node_dim, node_dim>>, r),
           W_edge    |-> Randn(<<edge_dim, node_dim>>, r + 1),
           a         |-> Randn(<<num_heads, 3 * node_dim>>, r + 2)],
          r + 3)

\* np.dot(x, W) for x of shape (n, d)
Dot2(x, W) ==
    IF x.shape[2] # W.shape[1] THEN Raise("ValueError")
    ELSE Tensor(<<x.shape[1], W.shape[2]>>,
                [i \in 1..x.shape[1] |-> [op |-> "dot", W |-> W, x |-> x.rows[i]]])

\* numpy's h[idx] on an array of n rows: the 1-based row it reads, 0 when it
\* raises IndexError; a negative idx counts from the end
RowOf(idx, n) ==
    IF 0 <= idx /\ idx < n THEN idx + 1
    ELSE IF -n <= idx /\ idx < 0 THEN n + idx + 1
    ELSE 0

\* GraphAttention._softmax_per_node(logits, dst_indices, num_nodes): for each
\* node of range(num_nodes), a softmax over the edges whose destination index
\* equals the node; an edge whose destination index is no such node keeps the
\* weight 0 of np.zeros_like
softmax_per_node(logits, dst_indices, num_nodes) ==
    [op |-> "softmax_per_node", logits |-> logits, dst_indices |-> dst_indices,
     num_nodes |-> num_nodes]

\* GraphAttention.forward(node_features, edge_features, adjacency)
GraphAttention_forward(layer, node_features, edge_features, adjacency) ==
    LET num_nodes == node_features.shape[1]
        num_edges == edge_features.shape[1]
        h == Dot2(node_features, layer.W_node)
        e == Dot2(edge_features, layer.W_edge)
        src(i) == RowOf(adjacency.rows[i][1], num_nodes)
        dst(i) == RowOf(adjacency.rows[i][2], num_nodes)
        attention_logits ==
            [i \in 1..num_edges |->
                [op |-> "leaky_relu", a |-> layer.a,
                 src |-> h.rows[src(i)], dst |-> h.rows[dst(i)], e |-> e.rows[i]]]
        attention_weights ==
            softmax_per_node(attention_logits,
                             [j \in 1..adjacency.shape[1] |-> adjacency.rows[j][2]],
                             num_nodes)
    IN  IF IsErr(h) \/ IsErr(e) THEN Raise("ValueError")
        \* adjacency[i], h[src_idx] and h[dst_idx] of the first loop
        ELSE IF \E i \in 1..num_edges :
                   \/ i > adjacency.shape[1]
                   \/ src(i) = 0
                   \/ dst(i) = 0
        THEN Raise("IndexError")
        \* logits[mask] with a mask longer than logits
        ELSE IF /\ adjacency.shape[1] > num_edges
                /\ \E j \in 1..adjacency.shape[1] :
                      0 <= adjacency.rows[j][2] /\ adjacency.rows[j][2] < num_nodes
        THEN Raise("IndexError")
        \* row n of h_new: the sum over the first num_edges edges into n of
        \* weight * h[src], over the heads, divided by num_heads
        ELSE Tensor(h.shape,
                    [n \in 1..num_nodes |->
                        [op |-> "aggregate", heads |-> layer.num_heads,
                         node |-> n - 1, num_edges |-> num_edges,
                         adjacency |-> adjacency.rows,
                         weights |-> attention_weights, h |-> h.rows]])

\* PositionalEncoding._create_positional_encoding: sines fill the
\* ceil(D/2) even columns, cosines of the same ceil(D/2) frequencies are
\* assigned to the floor(D/2) odd columns, which numpy refuses unless the
\* counts agree or one column is broadcast
create_positional_encoding(embed_dim, max_len) ==
    LET n_sin == (embed_dim + 1) \div 2
        n_odd == embed_dim \div 2
    IN  IF n_sin # n_odd /\ n_sin # 1 THEN Raise("ValueError")
        ELSE [err |-> "none", op |-> "sinusoid", shape |-> <<max_len, embed_dim>>]

\* PositionalEncoding.__init__(embed_dim, max_len)
NewPositionalEncoding(embed_dim, max_len, r) ==
    LET pe == create_positional_encoding(embed_dim, max_len)
    IN  IF IsErr(pe) THEN Failed(pe.err, r)
        ELSE Built([cls |-> "PositionalEncoding", embed_dim |-> embed_dim,
                    max_len |-> max_len, pe |-> pe], r)

\* PositionalEncoding.forward(x), x of shape (batch, seq_len, embed_dim)
PositionalEncoding_forwardOffByOne(posenc, x) ==
    LET seq_len == x.shape[2]
    IN  IF seq_len >= posenc.max_len THEN Raise("ValueError")
        ELSE Tensor(<<x.shape[1], seq_len, Max(x.shape[3], posenc.pe.shape[2])>>,
                    [b \in 1..x.shape[1] |-> [i \in 1..seq_len |->
                        [op |-> "add", x |-> x.rows[b][i],
                         y |-> [op |-> "row", of |-> posenc.pe, pos |-> i - 1]]]])

PositionalEncoding_forward(posenc, x) ==
    LET seq_len == x.shape[2]
    IN  IF seq_len > posenc.max_len THEN Raise("ValueError")
        \* x + pe[newaxis, :seq_len, :] broadcasts over the batch
        ELSE IF x.shape[3] # posenc.pe.shape[2] /\ x.shape[3] # 1
                /\ posenc.pe.shape[2] # 1
        THEN Raise("ValueError")
        ELSE Tensor(<<x.shape[1], seq_len, Max(x.shape[3], posenc.pe.shape[2])>>,
                    [b \in 1..x.shape[1] |-> [i \in 1..seq_len |->
                        [op |-> "add", x |-> x.rows[b][i],
                         y |-> [op |-> "row", of |-> posenc.pe, pos |-> i - 1]]]])

----------------------------------------------------------------------------
(* models/holographic_encoder.py *)

\* NodeEmbedding.__init__ and EdgeEmbedding.__init__(input_dim, embed_dim)
NewEmbedding(cls, input_dim, embed_dim, r) ==
    Built([cls |-> cls, input_dim |-> input_dim, embed_dim |-> embed_dim,
           W |-> Randn(<<input_dim, embed_dim>>, r),
           b |-> [op |-> "zeros", shape |-> <<embed_dim>>]],
          r + 1)

\* NodeEmbedding.forward and EdgeEmbedding.forward: relu(features W + b)
Embedding_forward(emb, features) ==
    IF features.shape[2] # emb.input_dim THEN Raise("ValueError")
    ELSE Tensor(<<features.shape[1], emb.embed_dim>>,
                [i \in 1..features.shape[1] |->
                    [op |-> "relu_linear", W |-> emb.W, feat |-> features.rows[i]]])

\* the encoder's positional-encoding table length
EncoderMaxLen == 1000

\* HolographicEncoder.__init__, generator at r
NewHolographicEncoder(node_dim, edge_dim, embed_dim, num_layers, num_heads, r) ==
    LET node_embedding == NewEmbedding("NodeEmbedding", node_dim, embed_dim, r)
        edge_embedding == NewEmbedding("EdgeEmbedding", edge_dim, embed_dim \div 2,
                                       node_embedding.rng)
        r0 == edge_embedding.rng
        graph_layers == [l \in 1..num_layers |->
            NewGraphAttention(embed_dim, embed_dim \div 2, num_heads,
                              r0 + 3 * (l - 1)).obj]
        r1 == r0 + 3 * num_layers
        positional_encoding == NewPositionalEncoding(embed_dim, EncoderMaxLen, r1)
    IN  IF IsErr(positional_encoding) THEN Failed(positional_encoding.err, r1)
        ELSE Built([cls        |-> "HolographicEncoder",
                    node_dim   |-> node_dim,
                    edge_dim   |-> edge_dim,
                    embed_dim  |-> embed_dim,
                    num_layers |-> num_layers,
                    num_heads  |-> num_heads,
                    node_embedding |-> node_embedding.obj,
                    edge_embedding |-> edge_embedding.obj,
                    graph_layers   |-> graph_layers,
                    positional_encoding |-> positional_encoding.obj,
                    output_projection   |-> Randn(<<embed_dim, embed_dim>>, r1)],
                   r1 + 1)

\* h + h_new, row by row
Add2(x, y) ==
    Tensor(x.shape, [i \in 1..x.shape[1] |->
                        [op |-> "add", x |-> x.rows[i], y |-> y.rows[i]]])

\* HolographicEncoder._layer_norm
layer_norm(x) ==
    Tensor(x.shape, [i \in 1..x.shape[1] |-> [op |-> "layer_norm", x |-> x.rows[i]]])

\* One pass of the loop over self.graph_layers, lines 265-276: the new h (or
\* the exception raised) and whether the layer was invoked
GraphLayerStepNoSkip(layer, h, edge_embeddings, adjacency) ==
    Then(GraphAttention_forward(layer, h, edge_embeddings, adjacency), LAMBDA h_new :
         IF IsErr(h_new) THEN h_new
         ELSE [err |-> "none", h |-> layer_norm(Add2(h, h_new)), invoked |-> 1])

GraphLayerStep(layer, h, edge_embeddings, adjacency) ==
    IF edge_embeddings.shape[1] > 0
    THEN Then(GraphAttention_forward(layer, h, edge_embeddings, adjacency),
              LAMBDA h_new :
              IF IsErr(h_new) THEN h_new
              ELSE [err |-> "none", h |-> layer_norm(Add2(h, h_new)), invoked |-> 1])
    ELSE [err |-> "none", h |-> h, invoked |-> 0]

\* the loop over self.graph_layers from layer l on: the final h and the
\* number of layers invoked
RECURSIVE GraphLayers(_, _, _, _, _)
GraphLayers(enc, h, edge_embeddings, adjacency, l) ==
    IF l > Len(enc.graph_layers) THEN [err |-> "none", h |-> h, invoked |-> 0]
    ELSE Then(GraphLayerStep(enc.graph_layers[l], h, edge_embeddings, adjacency),
              LAMBDA step :
         IF IsErr(step) THEN step
         ELSE Then(GraphLayers(enc, step.h, edge_embeddings, adjacency, l + 1),
                   LAMBDA rest :
              IF IsErr(rest) THEN rest
              ELSE [rest EXCEPT !.invoked = @ + step.invoked]))

\* h[np.newaxis, :, :]
NewAxis(h) == Tensor(<<1, h.shape[1], h.shape[2]>>, <<h.rows>>)

\* (h[0, :, :] forgotten: the batch axis stays)
FirstKeepsAxis(h) == h

\* h[0, :, :]
First(h) == Tensor(<<h.shape[2], h.shape[3]>>, h.rows[1])

\* HolographicEncoder.encode_graph(node_features, edge_features, adjacency):
\* (encoding, metadata), and as history the number of GraphAttention calls
encode_graph(enc, node_features, edge_features, adjacency) ==
    LET num_nodes == node_features.shape[1]
    IN  Then(Embedding_forward(enc.node_embedding, node_features),
             LAMBDA node_embeddings :
        IF IsErr(node_embeddings) THEN node_embeddings
        ELSE
        Then(IF edge_features.shape[1] > 0
             THEN Embedding_forward(enc.edge_embedding, edge_features)
             ELSE Tensor(<<0, enc.embed_dim \div 2>>, <<>>),
             LAMBDA edge_embeddings :
        IF IsErr(edge_embeddings) THEN edge_embeddings
        ELSE
        Then(GraphLayers(enc, node_embeddings, edge_embeddings, adjacency, 1),
             LAMBDA layers :
        IF IsErr(layers) THEN layers
        ELSE
        Then(PositionalEncoding_forward(enc.positional_encoding, NewAxis(layers.h)),
             LAMBDA pos :
        IF IsErr(pos) THEN pos
        ELSE
        Then(Dot2(First(pos), enc.output_projection), LAMBDA output :
        IF IsErr(output) THEN output
        ELSE [err |-> "none",
              encoding |-> output,
              metadata |-> [num_nodes |-> num_nodes,
                            num_edges |-> edge_features.shape[1],
                            attention_weights |-> <<>>,
                            input_shapes |-> [nodes |-> node_features.shape,
                                              edges |-> edge_features.shape,
                                              adjacency |-> adjacency.shape]],
              gat_calls |-> layers.invoked])))))

\* HolographicEncoder.encode_holographic_state(state)
encode_holographic_stateNoEdges(enc, state) ==
    Then(to_graph_representation(state.heap, state.trajectory, state.metadata),
         LAMBDA graph :
         IF IsErr(graph) THEN graph
         ELSE encode_graph(enc, graph.node_features,
                           Tensor(<<0, 3>>, <<>>), graph.adjacency))

encode_holographic_state(enc, state) ==
    Then(to_graph_representation(state.heap, state.trajectory, state.metadata),
         LAMBDA graph :
         IF IsErr(graph) THEN graph
         ELSE encode_graph(enc, graph.node_features, graph.edge_features,
                           graph.adjacency))

\* the arguments a caller may pass: a HolographicState, a dict, or other
TheState == [type |-> "HolographicState", object |-> "state", heap |-> heap,
             trajectory |-> trajectory, metadata |-> metadata,
             fixed_point |-> fixed_point, action |-> action]

DictOf(graph) == [type |-> "dict", graph |-> graph]

OtherInputs == {[type |-> "CouplingState"], [type |-> "NoneType"],
                [type |-> "ndarray"]}

\* HolographicEncoder.__call__(state_or_graph)
\* (without the final else: any other input is taken for an empty graph)
HolographicEncoder_callNoTypeError(enc, state_or_graph) ==
    IF state_or_graph.type = "HolographicState"
    THEN encode_holographic_state(enc, state_or_graph)
    ELSE IF state_or_graph.type = "dict"
    THEN encode_graph(enc, state_or_graph.graph.node_features,
                      state_or_graph.graph.edge_features,
                      state_or_graph.graph.adjacency)
    ELSE encode_graph(enc, Tensor(<<0, 4>>, <<>>), Tensor(<<0, 3>>, <<>>),
                      Tensor(<<0, 2>>, <<>>))

HolographicEncoder_call(enc, state_or_graph) ==
    IF state_or_graph.type = "HolographicState"
    THEN encode_holographic_state(enc, state_or_graph)
    ELSE IF state_or_graph.type = "dict"
    THEN encode_graph(enc, state_or_graph.graph.node_features,
                      state_or_graph.graph.edge_features,
                      state_or_graph.graph.adjacency)
    ELSE Raise("TypeError")

----------------------------------------------------------------------------
(* models/resonance_decoder.py *)

\* FeedForward.__init__
NewFeedForward(embed_dim, ff_dim, r) ==
    Built([cls |-> "FeedForward", embed_dim |-> embed_dim, ff_dim |-> ff_dim,
           W1 |-> Randn(<<embed_dim, ff_dim>>, r),
           W2 |-> Randn(<<ff_dim, embed_dim>>, r + 1)],
          r + 2)

\* DecoderLayer.__init__
NewDecoderLayer(embed_dim, num_heads, ff_dim, r) ==
    LET self_attention  == NewMultiHeadAttention(embed_dim, num_heads, r)
        cross_attention == NewMultiHeadAttention(embed_dim, num_heads, self_attention.rng)
        feed_forward    == NewFeedForward(embed_dim, ff_dim, cross_attention.rng)
    IN  IF IsErr(self_attention) THEN self_attention
        ELSE IF IsErr(cross_attention) THEN cross_attention
        ELSE Built([cls |-> "DecoderLayer", embed_dim |-> embed_dim,
                    num_heads |-> num_heads, ff_dim |-> ff_dim,
                    self_attention  |-> self_attention.obj,
                    cross_attention |-> cross_attention.obj,
                    feed_forward    |-> feed_forward.obj],
                   feed_forward.rng)

\* the randn calls one DecoderLayer.__init__ makes
DecoderLayerDraws == 10

\* ResonanceDecoder.__init__
NewResonanceDecoder(embed_dim, num_layers, num_heads, ff_dim, output_dim, r) ==
    LET layers == [l \in 1..num_layers |->
            NewDecoderLayer(embed_dim, num_heads, ff_dim,
                            r + DecoderLayerDraws * (l - 1))]
        r1 == r + DecoderLayerDraws * num_layers
    IN  IF num_layers >= 1 /\ IsErr(layers[1]) THEN layers[1]
        ELSE Built([cls |-> "ResonanceDecoder", embed_dim |-> embed_dim,
                    num_layers |-> num_layers, num_heads |-> num_heads,
                    ff_dim |-> ff_dim, output_dim |-> output_dim,
                    layers |-> [l \in 1..num_layers |-> layers[l].obj],
                    coupling_head    |-> Randn(<<embed_dim, output_dim>>, r1),
                    fixed_point_head |-> Randn(<<embed_dim, 1>>, r1 + 1),
                    action_head      |-> Randn(<<embed_dim, 1>>, r1 + 2)],
                   r1 + 3)

\* x + y and layer norm on (batch, seq_len, embed_dim)
AddNorm3(x, y) ==
    Tensor(x.shape, [b \in 1..x.shape[1] |-> [i \in 1..x.shape[2] |->
        [op |-> "layer_norm",
         x |-> [op |-> "add", x |-> x.rows[b][i], y |-> y.rows[b][i]]]]])

\* FeedForward.forward
FeedForward_forward(ff, x) ==
    IF x.shape[3] # ff.W1.shape[1] THEN Raise("ValueError")
    ELSE Tensor(x.shape, [b \in 1..x.shape[1] |-> [i \in 1..x.shape[2] |->
            [op |-> "feed_forward", W |-> ff.W1, W2 |-> ff.W2, x |-> x.rows[b][i]]]])

\* DecoderLayer.forward(query, memory)
DecoderLayer_forward(layer, query, memory) ==
    Then(MultiHeadAttention_forward(layer.self_attention, query, None, None),
         LAMBDA attn_output :
    IF IsErr(attn_output) THEN attn_output
    ELSE
    Then(AddNorm3(query, attn_output), LAMBDA query1 :
    Then(MultiHeadAttention_forward(layer.cross_attention, query1, memory, memory),
         LAMBDA cross_output :
    IF IsErr(cross_output) THEN cross_output
    ELSE
    Then(AddNorm3(query1, cross_output), LAMBDA query2 :
    Then(FeedForward_forward(layer.feed_forward, query2), LAMBDA ff_output :
    IF IsErr(ff_output) THEN ff_output
    ELSE AddNorm3(query2, ff_output))))))

RECURSIVE DecoderLayers(_, _, _, _)
DecoderLayers(dec, hidden, memory, l) ==
    IF l > Len(dec.layers) THEN hidden
    ELSE Then(DecoderLayer_forward(dec.layers[l], hidden, memory), LAMBDA out :
         IF IsErr(out) THEN out
         ELSE DecoderLayers(dec, out, memory, l + 1))

\* a prediction head applied to the hidden vector of each batch item:
\* shape (batch, width of the head)
PredictionHead(name, W, hidden) ==
    Tensor(<<Len(hidden), W.shape[2]>>,
           [b \in 1..Len(hidden) |-> [op |-> name, W |-> W, x |-> hidden[b]]])

\* (the first node of each batch item is the query)
TargetQueriesFirst(memory) ==
    Tensor(<<memory.shape[1], Min(memory.shape[2], 1), memory.shape[3]>>,
           [b \in 1..memory.shape[1] |->
               SubSeq(memory.rows[b], 1, Min(memory.shape[2], 1))])

\* encoded_state[:, -1:, :]
TargetQueries(memory) ==
    Tensor(<<memory.shape[1], Min(memory.shape[2], 1), memory.shape[3]>>,
           [b \in 1..memory.shape[1] |->
               IF memory.shape[2] = 0 THEN <<>>
               ELSE SubSeq(memory.rows[b], memory.shape[2], memory.shape[2])])

\* (the first batch item is returned, whatever the batch size)
SqueezeAlways(batch_size, prediction) ==
    Tensor(<<prediction.shape[2]>>, prediction.rows[1])

\* "if batch_size == 1: predictions[key] = predictions[key][0]"
Squeeze(batch_size, prediction) ==
    IF batch_size = 1 THEN Tensor(<<prediction.shape[2]>>, prediction.rows[1])
    ELSE prediction

\* ResonanceDecoder.forward(encoded_state) without target queries,
\* encoded_state of shape (seq_len, embed_dim) or (batch, seq_len, embed_dim)
ResonanceDecoder_forward(dec, encoded_state) ==
    \* batch_size, seq_len, _ = encoded_state.shape
    IF Len(encoded_state.shape) \notin {2, 3} THEN Raise("ValueError")
    ELSE
    Then(IF Len(encoded_state.shape) = 2 THEN NewAxis(encoded_state)
         ELSE encoded_state, LAMBDA memory :
    Then(DecoderLayers(dec, TargetQueries(memory), memory, 1), LAMBDA hidden :
    IF IsErr(hidden) THEN hidden
    \* hidden[:, -1, :]
    ELSE IF hidden.shape[2] = 0 THEN Raise("IndexError")
    ELSE Then([b \in 1..memory.shape[1] |-> hidden.rows[b][hidden.shape[2]]],
              LAMBDA final_hidden :
         [err |-> "none",
          couplings      |-> Squeeze(memory.shape[1],
              PredictionHead("linear", dec.coupling_head, final_hidden)),
          is_fixed_point |-> Squeeze(memory.shape[1],
              PredictionHead("sigmoid_linear", dec.fixed_point_head, final_hidden)),
          action         |-> Squeeze(memory.shape[1],
              PredictionHead("linear", dec.action_head, final_hidden))])))

----------------------------------------------------------------------------
(* The doubles the fixed-point head computes with.  A double is a NaN, an  *)
(* infinity (val its sign), a small number (val counts thousandths, a      *)
(* quotient being rounded down to one) or a huge one (val counts halves of *)
(* the largest finite double).                                             *)

Small(v) == [cls |-> "small", val |-> v]

Huge(h) == [cls |-> "huge", val |-> h]

Inf(s) == [cls |-> "inf", val |-> s]

NaN == [cls |-> "nan", val |-> 0]

Sign(v) == IF v > 0 THEN 1 ELSE IF v < 0 THEN -1 ELSE 0

\* an exact result stored as a double: past the largest finite double it
\* overflows to an infinity
Round(x) ==
    IF x.cls = "huge" /\ Abs(x.val) > 2 THEN Inf(Sign(x.val))
    ELSE IF x.cls = "huge" /\ x.val = 0 THEN Small(0)
    ELSE x

\* a * b exactly, for a finite a and a small b of whole units
MulExact(a, b) ==
    IF a.cls = "small" THEN Small((a.val * b.val) \div 1000)
    ELSE Huge(a.val * (b.val \div 1000))

\* a + b exactly; a small number added to a huge one is rounded away
AddExact(a, b) ==
    IF a.cls = "nan" \/ b.cls = "nan" THEN NaN
    ELSE IF a.cls = "inf" /\ b.cls = "inf"
    THEN (IF a.val = b.val THEN a ELSE NaN)
    ELSE IF a.cls = "inf" THEN a
    ELSE IF b.cls = "inf" THEN b
    ELSE IF a.cls = "small" /\ b.cls = "small" THEN Small(a.val + b.val)
    ELSE IF a.cls = "small" THEN b
    ELSE IF b.cls = "small" THEN a
    ELSE Huge(a.val + b.val)

\* np.dot(hidden, W) for one hidden vector and a head of one column: the sum
\* of the products in index order.  A build that multiplies and adds in two
\* instructions rounds the product first; one that fuses them rounds once.
RECURSIVE DotFrom(_, _, _, _, _)
DotFrom(hidden, W, i, acc, fused) ==
    IF i > Len(hidden) THEN acc
    ELSE DotFrom(hidden, W, i + 1,
                 IF fused
                 THEN Round(AddExact(acc, MulExact(hidden[i], W[i])))
                 ELSE Round(AddExact(acc, Round(MulExact(hidden[i], W[i])))),
                 fused)

\* 1000 e^n for n = -8 .. 8
ExpTable ==
    <<0, 0, 2, 6, 18, 49, 135, 367, 1000,
      2718, 7389, 20085, 54598, 148413, 403428, 1096633, 2980957>>

\* np.exp(x): overflows to inf, underflows to 0
Exp(x) ==
    IF x.cls = "nan" THEN NaN
    ELSE IF x.cls = "small" THEN Small(ExpTable[(x.val \div 1000) + 9])
    ELSE IF x.val > 0 THEN Inf(1)
    ELSE Small(0)

Neg(x) == [x EXCEPT !.val = -@]

\* 1.0 / x for x >= 1
Reciprocal(x) ==
    IF x.cls = "nan" THEN NaN
    ELSE IF x.cls = "small" THEN Small(1000000 \div x.val)
    ELSE Small(0)

\* prob = 1.0 / (1.0 + np.exp(-logit))
Sigmoid(logit) == Reciprocal(Round(AddExact(Small(1000), Exp(Neg(logit)))))

\* a > b for doubles; a comparison with a NaN is false
Greater(a, b) ==
    /\ a.cls # "nan" /\ b.cls # "nan"
    /\ IF a.cls = "small" /\ b.cls = "small" THEN a.val > b.val
       ELSE IF a.cls = b.cls THEN a.val > b.val
       ELSE IF a.cls = "small" THEN b.val < 0
       ELSE IF b.cls = "small" THEN a.val > 0
       ELSE IF a.cls = "inf" THEN a.val > 0
       ELSE b.val < 0

\* ResonanceDecoder._predict_fixed_point(hidden) for one hidden vector, W
\* being the numbers in fixed_point_head['W'] and the bias being zeros
ResonanceDecoder_predict_fixed_point(hidden, W, fused) ==
    Sigmoid(Round(AddExact(DotFrom(hidden, W, 1, Small(0), fused), Small(0))))

----------------------------------------------------------------------------
(* GraphAttention in doubles: the arrays hold doubles, the weight matrices *)
(* whole numbers                                                           *)

\* a * b exactly, for a double a and a small b of whole units
MulDouble(a, b) ==
    IF a.cls = "nan" THEN NaN
    ELSE IF a.cls = "inf"
    THEN (IF b.val = 0 THEN NaN ELSE Inf(a.val * Sign(b.val)))
    ELSE MulExact(a, b)

\* np.dot(x, w) for vectors x and w: the sum of the products in index order
RECURSIVE DotDoubles(_, _, _, _, _)
DotDoubles(x, w, i, acc, fused) ==
    IF i > Len(x) THEN acc
    ELSE DotDoubles(x, w, i + 1,
                    IF fused
                    THEN Round(AddExact(acc, MulDouble(x[i], w[i])))
                    ELSE Round(AddExact(acc, Round(MulDouble(x[i], w[i])))),
                    fused)

\* np.dot(x, W) for the rows x and a matrix W of Len(W) rows
MatDot(x, W, fused) ==
    [n \in 1..Len(x) |-> [j \in 1..Len(W[1]) |->
        DotDoubles(x[n], [k \in 1..Len(W) |-> W[k][j]], 1, Small(0), fused)]]

\* np.maximum(0, x)
Relu(x) ==
    IF x.cls = "nan" THEN NaN
    ELSE IF x.val < 0 THEN Small(0)
    ELSE x

\* NodeEmbedding.forward and EdgeEmbedding.forward, the bias being zeros
EmbedDoubles(W, features, fused) ==
    LET projected == MatDot(features, W, fused)
    IN  [n \in 1..Len(features) |-> [j \in 1..Len(W[1]) |->
            Relu(Round(AddExact(projected[n][j], Small(0))))]]

\* np.maximum(0.01 * x, x); a hundredth of a huge number is huge still
LeakyRelu(x) ==
    IF x.cls = "small" /\ x.val < 0 THEN Small(-((-x.val) \div 100))
    ELSE x

\* np.exp(x) for x <= 0: below e^-8 it is no thousandth
ExpBelow(x) ==
    IF x.cls = "small" /\ x.val < -8000 THEN Small(0) ELSE Exp(x)

\* np.max of the numbers xs
MaxDouble(xs) ==
    IF NaN \in xs THEN NaN
    ELSE CHOOSE m \in xs : \A y \in xs : ~Greater(y, m)

\* np.sum of the numbers xs from index i on, acc being the sum so far
RECURSIVE SumDoubles(_, _, _)
SumDoubles(xs, i, acc) ==
    IF i > Len(xs) THEN acc
    ELSE SumDoubles(xs, i + 1, Round(AddExact(acc, xs[i])))

\* an attention weight: the quotient num / den of two counts of thousandths
Weight(num, den) == [cls |-> "quotient", num |-> num, den |-> den]

NaNWeight == [cls |-> "nan", num |-> 0, den |-> 0]

\* exp_logits / np.sum(exp_logits), the sum being no less than 1
Quotient(a, b) ==
    IF a.cls = "nan" \/ b.cls = "nan" THEN NaNWeight
    ELSE Weight(a.val, b.val)

\* (one softmax over all the edges, whatever their destination)
EdgesIntoAny(dst_indices, node) == [i \in 1..Len(dst_indices) |-> i]

\* logits[mask] for mask = dst_indices == node: the edges, in order, whose
\* destination index is node
EdgesInto(dst_indices, node) ==
    SelectSeq([i \in 1..Len(dst_indices) |-> i],
              LAMBDA i : dst_indices[i] = node)

\* GraphAttention._softmax_per_node(logits, dst_indices, num_nodes) for
\* logits[edge][head]: for each node of range(num_nodes) a softmax over the
\* edges whose destination index is the node; any other edge keeps the 0 of
\* np.zeros_like
SoftmaxPerNode(logits, dst_indices, num_nodes) ==
    [i \in 1..Len(logits) |-> [head \in 1..Len(logits[i]) |->
        IF dst_indices[i] \notin 0..(num_nodes - 1) THEN Weight(0, 1)
        ELSE
        LET mask == EdgesInto(dst_indices, dst_indices[i])
            node_logits == [g \in 1..Len(mask) |-> logits[mask[g]][head]]
            node_logits_max ==
                MaxDouble({node_logits[g] : g \in 1..Len(mask)})
            exp_logits ==
                [g \in 1..Len(mask) |->
                    ExpBelow(Round(AddExact(node_logits[g],
                                            Neg(node_logits_max))))]
        IN  Quotient(ExpBelow(Round(AddExact(logits[i][head],
                                             Neg(node_logits_max)))),
                     SumDoubles(exp_logits, 1, Small(0)))]]

\* attention_weights[i, head] * h[src_idx] for one entry x of h[src_idx]
MulWeight(w, x) ==
    IF w.cls = "nan" \/ x.cls = "nan" THEN NaN
    ELSE IF x.cls = "inf" THEN (IF w.num = 0 THEN NaN ELSE x)
    ELSE IF x.cls = "small" THEN Small((x.val * w.num) \div w.den)
    ELSE IF w.num = w.den THEN x
    ELSE Round(Huge((x.val * w.num) \div w.den))

\* h_new[n][j] after the aggregation loops from step k on, a step being one
\* edge and one head, acc being h_new[n][j] so far
RECURSIVE Aggregate(_, _, _, _, _)
Aggregate(g, n, j, k, acc) ==
    IF k > g.num_edges * g.num_heads THEN acc
    ELSE LET i    == ((k - 1) \div g.num_heads) + 1
             head == ((k - 1) % g.num_heads) + 1
         IN  Aggregate(g, n, j, k + 1,
                 IF g.dst[i] = n
                 THEN Round(AddExact(acc,
                          Round(MulWeight(g.weights[i][head],
                                          g.h[g.src[i]][j]))))
                 ELSE acc)

\* x / num_heads; a huge number that num_heads does not divide stays as huge
DivideBy(x, num_heads) ==
    IF x.cls = "small" THEN Small(x.val \div num_heads)
    ELSE IF x.cls = "huge" /\ x.val % num_heads = 0
    THEN Huge(x.val \div num_heads)
    ELSE x

\* GraphAttention.forward(node_features, edge_features, adjacency) on rows of
\* doubles, adjacency having a row for every edge: the logits, the weights
\* and h_new
GraphAttentionDoubles(layer, node_features, edge_features, adjacency, fused) ==
    LET num_nodes == Len(node_features)
        num_edges == Len(edge_features)
        h == MatDot(node_features, layer.W_node, fused)
        e == MatDot(edge_features, layer.W_edge, fused)
        src == [i \in 1..num_edges |-> RowOf(adjacency[i][1], num_nodes)]
        dst == [i \in 1..num_edges |-> RowOf(adjacency[i][2], num_nodes)]
    IN  IF \E i \in 1..num_edges : src[i] = 0 \/ dst[i] = 0
        THEN Raise("IndexError")
        ELSE
        LET attention_logits ==
                [i \in 1..num_edges |-> [head \in 1..layer.num_heads |->
                    LeakyRelu(DotDoubles(h[src[i]] \o h[dst[i]] \o e[i],
                                         layer.a[head], 1, Small(0), fused))]]
            attention_weights ==
                SoftmaxPerNode(attention_logits,
                               [i \in 1..num_edges |-> adjacency[i][2]],
                               num_nodes)
            g == [num_edges |-> num_edges, num_heads |-> layer.num_heads,
                  src |-> src, dst |-> dst, weights |-> attention_weights,
                  h |-> h]
        IN  [err     |-> "none",
             logits  |-> attention_logits,
             weights |-> attention_weights,
             h_new   |-> [n \in 1..num_nodes |-> [j \in 1..Len(h[n]) |->
                            DivideBy(Aggregate(g, n, j, 1, Small(0)),
                                     layer.num_heads)]]]

\* the rows of a trajectory graph's adjacency: (i, i + 1)
TrajectoryAdjacency(num_nodes) ==
    [i \in 1..(num_nodes - 1) |-> <<i - 1, i>>]

\* the first pass of encode_graph's loop for a trajectory graph of doubles:
\* the embeddings, the layer, and the residual h + h_new (the layer is
\* skipped when there is no edge)
EncodeTrajectoryDoubles(enc, node_features, edge_features, fused) ==
    LET node_embeddings == EmbedDoubles(enc.node_embedding, node_features, fused)
        edge_embeddings == EmbedDoubles(enc.edge_embedding, edge_features, fused)
    IN  IF Len(edge_features) = 0
        THEN [err |-> "none", logits |-> <<>>, weights |-> <<>>,
              h |-> node_embeddings]
        ELSE LET r == GraphAttentionDoubles(enc.layer, node_embeddings,
                          edge_embeddings,
                          TrajectoryAdjacency(Len(node_features)), fused)
             IN  [err |-> "none", logits |-> r.logits, weights |-> r.weights,
                  h |-> [n \in 1..Len(node_embeddings) |->
                           [j \in 1..Len(node_embeddings[n]) |->
                               Round(AddExact(node_embeddings[n][j],
                                              r.h_new[n][j]))]]]

----------------------------------------------------------------------------
(* models/irh_transformer.py *)

\* IRHTransformer.__init__
NewIRHTransformer(cfg, r) ==
    LET encoder == NewHolographicEncoder(cfg.node_dim, cfg.edge_dim, cfg.embed_dim,
                                         cfg.encoder_layers, cfg.encoder_heads, r)
        decoder == NewResonanceDecoder(cfg.embed_dim, cfg.decoder_layers,
                                       cfg.decoder_heads, cfg.ff_dim,
                                       cfg.output_dim, encoder.rng)
    IN  IF IsErr(encoder) THEN encoder
        ELSE IF IsErr(decoder) THEN decoder
        ELSE Built([cls |-> "IRHTransformer",
                    encoder |-> encoder.obj,
                    decoder |-> decoder.obj,
                    trained |-> FALSE,
                    training_history |-> <<>>],
                   decoder.rng)

\* IRHTransformer.forward(state)
IRHTransformer_forward(m, state) ==
    Then(HolographicEncoder_call(m.encoder, state), LAMBDA encoded :
    IF IsErr(encoded) THEN encoded
    ELSE
    Then(ResonanceDecoder_forward(m.decoder, encoded.encoding), LAMBDA predictions :
    IF IsErr(predictions) THEN predictions
    ELSE [err |-> "none",
          couplings        |-> predictions.couplings,
          is_fixed_point   |-> predictions.is_fixed_point,
          action           |-> predictions.action,
          encoder_metadata |-> encoded.metadata]))

\* HolographicState(initial_couplings): a trajectory of the one state
NewHolographicState(initial_couplings) ==
    [type |-> "HolographicState", object |-> "new",
     heap |-> <<initial_couplings>>,
     trajectory |-> <<1>>, metadata |-> <<>>,
     fixed_point |-> None, action |-> None]

\* a CouplingState object passed as an argument
Bare(s) == [type |-> "CouplingState", state |-> s]

\* HolographicState.get_current_state
get_current_state(state) == state.heap[state.trajectory[Len(state.trajectory)]]

\* HolographicState.get_trajectory_length
get_trajectory_length(state) == Len(state.trajectory)

\* (the caller's object is returned: no copy is made)
copyNone(state) == state

\* HolographicState.copy: a new HolographicState object with a new list of
\* new CouplingState objects, one per trajectory entry, and a new dict;
\* fixed_point and action are assigned as they are, so that fixed_point is
\* the object the original refers to
copy(state) ==
    [type |-> "HolographicState", object |-> "copy",
     heap |-> state.heap \o
              [i \in 1..Len(state.trajectory) |-> state.heap[state.trajectory[i]]],
     trajectory |-> [i \in 1..Len(state.trajectory) |-> Len(state.heap) + i],
     metadata |-> state.metadata,
     fixed_point |-> state.fixed_point,
     action |-> state.action]

\* state.add_rg_step(new_couplings), without rates of change, on a
\* HolographicState that is local to a call
HolographicState_add_rg_step(state, new_couplings) ==
    [state EXCEPT
        !.heap = Append(@, [new_couplings EXCEPT !.level = Len(state.trajectory)]),
        !.trajectory = Append(@, Len(state.heap) + 1)]

\* The numbers in a prediction.  The weights being random draws, the floats
\* the heads compute are inputs of a call: values[n] holds, for the forward
\* pass on a trajectory of n states, the three couplings, the logit of the
\* fixed-point head and the action.
couplings_of(values, predictions) ==
    values[predictions.encoder_metadata.num_nodes].couplings

\* predictions['is_fixed_point'].item()
is_fixed_point_of(values, predictions) ==
    Sigmoid(values[predictions.encoder_metadata.num_nodes].logit)

\* predictions['action'].item()
action_of(values, predictions) ==
    values[predictions.encoder_metadata.num_nodes].action

\* "if isinstance(initial_state, CouplingState): HolographicState(initial_state)
\*  else: initial_state"
AsHolographicState(initial_state) ==
    IF initial_state.type = "CouplingState"
    THEN NewHolographicState(initial_state.state)
    ELSE initial_state

\* (the predicted state keeps the scale of the last state of the input)
predict_final_stateKeepsScale(m, initial_state, target_scale, values) ==
    Then(AsHolographicState(initial_state), LAMBDA holo_state :
    Then(IRHTransformer_forward(m, holo_state), LAMBDA predictions :
    IF IsErr(predictions) THEN predictions
    ELSE IF predictions.couplings.shape # <<3>> THEN Raise("ValueError")
    ELSE IF holo_state.type # "HolographicState" THEN Raise("AttributeError")
    ELSE [err |-> "none",
          state |-> CouplingState(couplings_of(values, predictions)[1],
                                  couplings_of(values, predictions)[2],
                                  couplings_of(values, predictions)[3],
                                  get_current_state(holo_state).k,
                                  get_trajectory_length(holo_state))]))

\* IRHTransformer.predict_final_state(initial_state, target_scale)
predict_final_state(m, initial_state, target_scale, values) ==
    Then(AsHolographicState(initial_state), LAMBDA holo_state :
    Then(IRHTransformer_forward(m, holo_state), LAMBDA predictions :
    IF IsErr(predictions) THEN predictions
    \* lambda_pred, gamma_pred, mu_pred = predictions['couplings']
    ELSE IF predictions.couplings.shape # <<3>> THEN Raise("ValueError")
    ELSE IF holo_state.type # "HolographicState" THEN Raise("AttributeError")
    ELSE [err |-> "none",
          state |-> CouplingState(couplings_of(values, predictions)[1],
                                  couplings_of(values, predictions)[2],
                                  couplings_of(values, predictions)[3],
                                  target_scale,
                                  get_trajectory_length(holo_state))]))

\* (a probability of exactly one half counts as a fixed point too)
predict_fixed_pointFromHalf(m, initial_state, values) ==
    Then(AsHolographicState(initial_state), LAMBDA holo_state :
    Then(IRHTransformer_forward(m, holo_state), LAMBDA predictions :
    IF IsErr(predictions) THEN predictions
    ELSE
    Then(is_fixed_point_of(values, predictions), LAMBDA fp_prob :
    IF ~Greater(Small(500), fp_prob) /\ fp_prob.cls # "nan"
    THEN IF predictions.couplings.shape # <<3>> THEN Raise("ValueError")
         ELSE [err |-> "none",
               fixed_point |-> Some(CouplingState(
                   couplings_of(values, predictions)[1],
                   couplings_of(values, predictions)[2],
                   couplings_of(values, predictions)[3], 0, -1)),
               confidence |-> fp_prob]
    ELSE [err |-> "none", fixed_point |-> None, confidence |-> fp_prob])))

\* IRHTransformer.predict_fixed_point(initial_state): (fixed_point, confidence)
predict_fixed_point(m, initial_state, values) ==
    Then(AsHolographicState(initial_state), LAMBDA holo_state :
    Then(IRHTransformer_forward(m, holo_state), LAMBDA predictions :
    IF IsErr(predictions) THEN predictions
    ELSE
    Then(is_fixed_point_of(values, predictions), LAMBDA fp_prob :
    IF Greater(fp_prob, Small(500))
    THEN IF predictions.couplings.shape # <<3>> THEN Raise("ValueError")
         ELSE [err |-> "none",
               fixed_point |-> Some(CouplingState(
                   couplings_of(values, predictions)[1],
                   couplings_of(values, predictions)[2],
                   couplings_of(values, predictions)[3], 0, -1)),
               confidence |-> fp_prob]
    ELSE [err |-> "none", fixed_point |-> None, confidence |-> fp_prob])))

\* IRHTransformer.predict_action(state)
predict_action(m, state, values) ==
    Then(AsHolographicState(state), LAMBDA holo_state :
    Then(IRHTransformer_forward(m, holo_state), LAMBDA predictions :
    IF IsErr(predictions) THEN predictions
    ELSE [err |-> "none", action |-> action_of(values, predictions)]))

\* (a target equal to the current scale is taken as well)
AcceptsTargetOrEqual(k_target, holo_state) ==
    k_target <= get_current_state(holo_state).k

\* "if k_target < holo_state.get_current_state().k"
AcceptsTarget(k_target, holo_state) ==
    k_target < get_current_state(holo_state).k

\* the loop of predict_trajectory from the i-th target scale on
RECURSIVE PredictSteps(_, _, _, _, _)
PredictSteps(m, holo_state, target_scales, i, values) ==
    IF i > Len(target_scales) THEN [err |-> "none", state |-> holo_state]
    ELSE IF AcceptsTarget(target_scales[i], holo_state)
    THEN Then(predict_final_state(m, holo_state, target_scales[i], values),
              LAMBDA pred_state :
         IF IsErr(pred_state) THEN pred_state
         ELSE PredictSteps(m, HolographicState_add_rg_step(holo_state, pred_state.state),
                           target_scales, i + 1, values))
    ELSE PredictSteps(m, holo_state, target_scales, i + 1, values)

\* IRHTransformer.predict_trajectory(initial_state, target_scales)
predict_trajectory(m, initial_state, target_scales, values) ==
    IF initial_state.type = "CouplingState"
    THEN PredictSteps(m, NewHolographicState(initial_state.state),
                      target_scales, 1, values)
    ELSE IF initial_state.type = "HolographicState"
    THEN PredictSteps(m, copy(initial_state), target_scales, 1, values)
    ELSE Raise("AttributeError")

\* (the predictions come back last item first)
predict_batchReversed(m, states) ==
    LET predictions == [i \in 1..Len(states) |->
            IRHTransformer_forward(m, states[Len(states) + 1 - i])]
    IN  IF \E i \in 1..Len(states) : IsErr(predictions[i])
        THEN predictions[CHOOSE i \in 1..Len(states) :
                /\ IsErr(predictions[i])
                /\ \A j \in 1..(i - 1) : ~IsErr(predictions[j])]
        ELSE [err |-> "none", predictions |-> predictions]

\* IRHTransformer.predict_batch(states): forward on each item in turn; the
\* first item forward raises on ends the call
predict_batch(m, states) ==
    LET predictions == [i \in 1..Len(states) |-> IRHTransformer_forward(m, states[i])]
    IN  IF \E i \in 1..Len(states) : IsErr(predictions[i])
        THEN predictions[CHOOSE i \in 1..Len(states) :
                /\ IsErr(predictions[i])
                /\ \A j \in 1..(i - 1) : ~IsErr(predictions[j])]
        ELSE [err |-> "none", predictions |-> predictions]

----------------------------------------------------------------------------
(* engines/resonance_engine.py.  The engine works on the logarithm of the   *)
(* scale: the field k of its states holds ln k, an integer, and a quotient  *)
(* is rounded to an integer as a float quotient is rounded to a float.      *)

\* ResonanceEngine(tolerance, max_iterations, beta_lambda_fn, beta_gamma_fn,
\* beta_mu_fn), the three functions being constant ones
NewResonanceEngine(tolerance, max_iterations, betas) ==
    [cls |-> "ResonanceEngine", tolerance |-> tolerance,
     max_iterations |-> max_iterations, betas |-> betas]

\* ResonanceEngine.compute_beta_functions(state)
compute_beta_functions(engine, state) == engine.betas

\* _rk4_step(k1, k2, k3, k4, d_ln_k), d_ln_k being num / den
rk4_step(k1, k2, k3, k4, num, den) ==
    (num * (k1 + 2 * k2 + 2 * k3 + k4)) \div (6 * den)

\* state.add_rg_step(new_couplings, beta_functions) on a HolographicState
\* that is local to a call
HolographicState_add_rg_step_with(state, new_couplings, beta_functions) ==
    LET level == Len(state.trajectory)
    IN  [state EXCEPT
            !.heap = Append(@, [new_couplings EXCEPT !.level = level]),
            !.trajectory = Append(@, Len(state.heap) + 1),
            !.metadata = [i \in (DOMAIN state.metadata) \cup {level} |->
                             IF i = level THEN beta_functions
                             ELSE state.metadata[i]]]

\* the loop "for step in range(num_steps)" of integrate_rg_flow from step on,
\* d_ln_k being num / den and den = num_steps
RECURSIVE IntegrateFrom(_, _, _, _, _, _, _)
IntegrateFrom(engine, holographic_state, current, num, den, step, method) ==
    IF step >= den THEN [err |-> "none", state |-> holographic_state]
    ELSE
    Then(compute_beta_functions(engine, current), LAMBDA beta :
    IF method \notin {"euler", "rk4"} THEN Raise("ValueError")
    ELSE
    Then(IF method = "euler"
         THEN [i \in 1..3 |-> (beta[i] * num) \div den]
         ELSE [i \in 1..3 |-> rk4_step(beta[i], beta[i], beta[i], beta[i], num, den)],
         LAMBDA change :
    Then(CouplingState(current.lambda_tilde + change[1],
                       current.gamma_tilde + change[2],
                       current.mu_tilde + change[3],
                       current.k + (num \div den), 0),
         LAMBDA new :
    Then(HolographicState_add_rg_step_with(holographic_state, new, beta),
         LAMBDA added :
    Then(check_fixed_point(added.heap, added.trajectory, added.fixed_point,
                           engine.tolerance),
         LAMBDA checked :
    IF checked.val
    THEN [err |-> "none",
          state |-> [added EXCEPT !.fixed_point = checked.fixed_point]]
    ELSE IntegrateFrom(engine, added, get_current_state(added), num, den,
                       step + 1, method))))))

\* ResonanceEngine.integrate_rg_flow(initial_state, k_final, num_steps,
\* method); num_steps is None or an integer.  The quotient d_ln_k is a numpy
\* float: with num_steps = 0 it is inf or nan, and no exception.
integrate_rg_flow(engine, initial_state, k_final, num_steps, method) ==
    LET steps == IF num_steps = None
                 THEN Min(Abs(initial_state.k - k_final) * 100,
                          engine.max_iterations)
                 ELSE num_steps.val
    IN  IntegrateFrom(engine, NewHolographicState(initial_state), initial_state,
                      k_final - initial_state.k, steps, 0, method)

----------------------------------------------------------------------------
(* The calls *)

\* (the call marks the model as trained)
ReturnsForMarksTrained(op, arg, val) ==
    /\ ret' = [op |-> op, arg |-> arg, val |-> val]
    /\ before' = [op |-> "none", val |-> None]
    /\ model' = [model EXCEPT !.trained = TRUE]
    /\ UNCHANGED <<heap, trajectory, metadata, supplied, rng,
                 fixed_point, action, clone, calls, bundle>>

\* a call op with argument arg returned or raised val; nothing else changes
ReturnsFor(op, arg, val) ==
    /\ ret' = [op |-> op, arg |-> arg, val |-> val]
    /\ before' = [op |-> "none", val |-> None]
    /\ UNCHANGED <<heap, trajectory, metadata, supplied, model, rng,
                 fixed_point, action, clone, calls, bundle>>

\* the CouplingState objects a HolographicState refers to
ObjectsOf(t, fp) ==
    {t[i] : i \in DOMAIN t} \cup (IF fp = None THEN {} ELSE {fp.val})

\* the objects of the state, and of its copy
StateObjects == ObjectsOf(trajectory, fixed_point)

CloneObjects ==
    IF clone = None THEN {}
    ELSE ObjectsOf(clone.val.trajectory, clone.val.fixed_point)

\* state.add_rg_step(o) with a CouplingState object o that the caller has
\* made or has read from the state itself (and not from its copy)
AddOwnStep(max) ==
    /\ Len(trajectory) < max
    /\ \E o \in DOMAIN heap :
          /\ o \in StateObjects \/ o \notin CloneObjects
          /\ add_rg_step(heap, o, None)

\* new_state = state.copy(): the caller holds both objects from now on
CopyState ==
    /\ clone = None
    /\ LET new_state == copy(TheState)
       IN  /\ heap' = new_state.heap
           /\ clone' = Some([trajectory  |-> new_state.trajectory,
                             metadata    |-> new_state.metadata,
                             fixed_point |-> new_state.fixed_point,
                             action      |-> new_state.action])
    /\ ret' = [op |-> "copy", val |-> None]
    /\ before' = [op |-> "none", val |-> None]
    /\ UNCHANGED <<trajectory, metadata, supplied, model, rng, fixed_point,
                   action, calls, bundle>>

\* new_state.add_rg_step(o) with a CouplingState object o that the caller
\* has made or has read from the copy itself (and not from the original)
CloneAddStep(max) ==
    /\ clone # None
    /\ Len(clone.val.trajectory) < max
    /\ \E o \in DOMAIN heap :
          /\ o \in CloneObjects \/ o \notin StateObjects
          /\ heap' = [heap EXCEPT ![o].level = Len(clone.val.trajectory)]
          /\ clone' = Some([clone.val EXCEPT !.trajectory = Append(@, o)])
    /\ ret' = [op |-> "copy.add_rg_step", val |-> None]
    /\ before' = [op |-> "none", val |-> None]
    /\ UNCHANGED <<trajectory, metadata, supplied, model, rng, fixed_point,
                   action, calls, bundle>>

\* new_state.check_fixed_point(tolerance)
CloneCheckFixedPoint ==
    /\ clone # None
    /\ \E tolerance \in Tolerances :
        LET r == check_fixed_point(heap, clone.val.trajectory,
                                   clone.val.fixed_point, tolerance)
        IN  /\ clone' = Some([clone.val EXCEPT !.fixed_point = r.fixed_point])
            /\ ret' = [op |-> "copy.check_fixed_point", arg |-> tolerance,
                       val |-> r.val]
    /\ before' = [op |-> "none", val |-> None]
    /\ UNCHANGED <<heap, trajectory, metadata, supplied, model, rng,
                   fixed_point, action, calls, bundle>>

\* the value the caller writes into a field
Written == 99

\* The caller assigns to a field of a CouplingState it reaches through the
\* state (x.trajectory[i].lambda_tilde = v, x.fixed_point.lambda_tilde = v),
\* once in a run
WriteThroughState ==
    /\ \E o \in ObjectsOf(trajectory, fixed_point) :
          /\ \A p \in DOMAIN heap : heap[p].lambda_tilde # Written
          /\ heap' = [heap EXCEPT ![o].lambda_tilde = Written]
    /\ ret' = [op |-> "write", val |-> None]
    /\ before' = [op |-> "none", val |-> None]
    /\ UNCHANGED <<trajectory, metadata, supplied, model, rng, fixed_point,
                   action, clone, calls, bundle>>

\* the same through the copy
WriteThroughClone ==
    /\ clone # None
    /\ \E o \in ObjectsOf(clone.val.trajectory, clone.val.fixed_point) :
          /\ \A p \in DOMAIN heap : heap[p].lambda_tilde # Written
          /\ heap' = [heap EXCEPT ![o].lambda_tilde = Written]
    /\ ret' = [op |-> "copy.write", val |-> None]
    /\ before' = [op |-> "none", val |-> None]
    /\ UNCHANGED <<trajectory, metadata, supplied, model, rng, fixed_point,
                   action, clone, calls, bundle>>

\* encoder(state)
EncodeState ==
    Returns("encoder(state)", HolographicEncoder_call(model.encoder, TheState))

\* encoder(state.to_graph_representation())
EncodeGraphOfState ==
    Returns("encoder(graph)",
            HolographicEncoder_call(model.encoder,
                DictOf(to_graph_representation(heap, trajectory, metadata))))

\* encoder(x) for an x that is neither a HolographicState nor a dict
EncodeOther ==
    \E x \in OtherInputs :
        ReturnsFor("encoder(other)", x, HolographicEncoder_call(model.encoder, x))

\* model.forward(state)
ForwardState ==
    Returns("forward(state)", IRHTransformer_forward(model, TheState))

\* model.forward(x) for an x that is neither a HolographicState nor a dict
ForwardOther ==
    \E x \in OtherInputs :
        ReturnsFor("forward(other)", x, IRHTransformer_forward(model, x))

\* encoder(state) of which the caller reads the shape and the metadata
Outcome(r) ==
    IF IsErr(r) THEN r
    ELSE [err |-> "none", shape |-> r.encoding.shape, metadata |-> r.metadata]

EncodeShape ==
    Returns("encoder(state).shape",
            Outcome(HolographicEncoder_call(model.encoder, TheState)))

\* raw graph bundles: n nodes, no or one edge-feature row, and an adjacency of
\* no or one row between any indices from -(n+1) to n
MaxRawNodes == 2
RawEdgeCounts == {0, 1}

RawNodeFeatures(n) ==
    NpArray([i \in 1..n |-> to_array(CouplingState(10, 10 + i, 10 + 2 * i, i, 0))])

RawEdgeFeatures(e) ==
    IF e = 0 THEN Tensor(<<0, 3>>, <<>>)
    ELSE NpArray([j \in 1..e |-> <<Num(j), Num(j + 1), Num(j + 2)>>])

RawAdjacency(rows) ==
    IF rows = <<>> THEN Tensor(<<0, 2>>, <<>>) ELSE NpArray(rows)

RawGraph(n, e, adj) ==
    [node_features |-> RawNodeFeatures(n),
     edge_features |-> RawEdgeFeatures(e),
     adjacency     |-> RawAdjacency(adj),
     num_nodes     |-> n]

RawAdjacencies(n) ==
    {<<>>} \cup {<<<<s, d>>>> : s \in -(n + 1)..n, d \in -(n + 1)..n}

\* encoder(graph) for a raw bundle
EncodeDict ==
    \E n \in 1..MaxRawNodes : \E e \in RawEdgeCounts :
      \E adj \in RawAdjacencies(n) :
        ReturnsFor("encoder(dict)", RawGraph(n, e, adj),
                   HolographicEncoder_call(model.encoder, DictOf(RawGraph(n, e, adj))))

\* model.forward(graph) for a raw bundle
ForwardDict ==
    \E n \in 1..MaxRawNodes : \E e \in RawEdgeCounts :
      \E adj \in RawAdjacencies(n) :
        ReturnsFor("forward(dict)", RawGraph(n, e, adj),
                   IRHTransformer_forward(model, DictOf(RawGraph(n, e, adj))))

\* Model configurations, as IRHTransformer.__init__ takes them
Config(embed_dim, encoder_layers, encoder_heads, decoder_layers, decoder_heads) ==
    [node_dim |-> 4, edge_dim |-> 3, embed_dim |-> embed_dim,
     encoder_layers |-> encoder_layers, encoder_heads |-> encoder_heads,
     decoder_layers |-> decoder_layers, decoder_heads |-> decoder_heads,
     ff_dim |-> 2 * embed_dim, output_dim |-> 3]

\* a constructor call op(arg), the generator being at rng, ended as b: the
\* object is bound on success only, and draws counts the np.random.randn
\* calls the constructor made before it returned or raised
Constructs(op, arg, b) ==
    /\ ret' = [op |-> op, arg |-> arg,
               val |-> IF IsErr(b) THEN Raise(b.err)
                       ELSE [err |-> "none", obj |-> b.obj],
               draws |-> b.rng - rng]
    /\ model' = IF IsErr(b) THEN model ELSE b.obj
    /\ rng' = b.rng
    /\ before' = [op |-> "none", val |-> None]
    /\ UNCHANGED <<heap, trajectory, metadata, supplied, fixed_point, action, clone,
                   calls, bundle>>

\* the widths, head counts and layer counts a caller configures
MaxHeads == 3
MaxLayers == 1
MaxPELen == 2
MaxBatch == 2
MaxSeqLen == 2
MaxDraws == 4

ModuleDims == {2, 3, 4}

\* MultiHeadAttention(embed_dim, num_heads)
ConstructMHA ==
    /\ rng < MaxDraws
    /\ \E embed_dim \in ModuleDims : \E num_heads \in 1..MaxHeads :
          Constructs("MultiHeadAttention", <<embed_dim, num_heads>>,
                     NewMultiHeadAttention(embed_dim, num_heads, rng))

\* PositionalEncoding(embed_dim, max_len)
ConstructPE ==
    /\ rng < MaxDraws
    /\ \E embed_dim \in {1} \cup ModuleDims : \E max_len \in 0..MaxPELen :
          Constructs("PositionalEncoding", <<embed_dim, max_len>>,
                     NewPositionalEncoding(embed_dim, max_len, rng))

\* HolographicEncoder(embed_dim=, num_layers=, num_heads=)
ConstructEncoder ==
    /\ rng < MaxDraws
    /\ \E embed_dim \in ModuleDims : \E num_layers \in 0..MaxLayers :
        \E num_heads \in 1..MaxHeads :
          Constructs("HolographicEncoder", <<embed_dim, num_layers, num_heads>>,
                     NewHolographicEncoder(4, 3, embed_dim, num_layers, num_heads, rng))

\* ResonanceDecoder(embed_dim=, num_layers=, num_heads=)
ConstructDecoder ==
    /\ rng < MaxDraws
    /\ \E embed_dim \in ModuleDims : \E num_layers \in 0..MaxLayers :
        \E num_heads \in 1..MaxHeads :
          Constructs("ResonanceDecoder", <<embed_dim, num_layers, num_heads>>,
                     NewResonanceDecoder(embed_dim, num_layers, num_heads,
                                         2 * embed_dim, 3, rng))

\* IRHTransformer(embed_dim=, encoder_layers=, encoder_heads=, decoder_layers=,
\* decoder_heads=)
ConstructModel ==
    /\ rng < MaxDraws
    /\ \E embed_dim \in ModuleDims :
        \E encoder_layers \in 0..MaxLayers : \E encoder_heads \in 1..MaxHeads :
        \E decoder_layers \in 0..MaxLayers : \E decoder_heads \in 1..MaxHeads :
          LET cfg == Config(embed_dim, encoder_layers, encoder_heads,
                            decoder_layers, decoder_heads)
          IN  Constructs("IRHTransformer", cfg, NewIRHTransformer(cfg, rng))

\* an input tensor of shape (B, L, D)
Input3(B, L, D) ==
    Tensor(<<B, L, D>>,
           [b \in 1..B |-> [i \in 1..L |->
               [op |-> "input", batch |-> b - 1, pos |-> i - 1]]])

\* a call op(arg) on the module bound last returned or raised val
Calls(op, arg, val) ==
    /\ ret' = [op |-> op, arg |-> arg, val |-> val, draws |-> 0]
    /\ before' = [op |-> "none", val |-> None]
    /\ UNCHANGED <<heap, trajectory, metadata, supplied, model, rng,
                 fixed_point, action, clone, calls, bundle>>

\* attention(query, key, key) on inputs of the module's width
CallMHA ==
    /\ model # None
    /\ model.cls = "MultiHeadAttention"
    /\ \E B \in 1..MaxBatch : \E Lq \in 1..MaxSeqLen : \E Lk \in 0..MaxSeqLen :
          Calls("MultiHeadAttention.forward", <<B, Lq, Lk>>,
                MultiHeadAttention_forward(model,
                    Input3(B, Lq, model.embed_dim),
                    Input3(B, Lk, model.embed_dim),
                    Input3(B, Lk, model.embed_dim)))

\* positional_encoding(x) on inputs of the module's width, of every length
\* up to one more than the table holds
CallPE ==
    /\ model # None
    /\ model.cls = "PositionalEncoding"
    /\ \E B \in 1..MaxBatch : \E L \in 0..(model.max_len + 1) :
          Calls("PositionalEncoding.forward", Input3(B, L, model.embed_dim),
                PositionalEncoding_forward(model, Input3(B, L, model.embed_dim)))

\* the items a caller batches: the trajectory as it is, a one-state
\* trajectory, and an initial state that is not wrapped in a trajectory
MaxBatchItems == 2

BatchItems ==
    {TheState,
     NewHolographicState(CouplingState(11, 13, 16, 1, 0)),
     Bare(CouplingState(10, 10, 10, 3, 0))}

BatchLists == UNION {[1..n -> BatchItems] : n \in 0..MaxBatchItems}

\* model.predict_batch(states)
PredictBatch ==
    \E states \in BatchLists :
        ReturnsFor("predict_batch", states, predict_batch(model, states))

\* the initial_state argument of a prediction: the trajectory as it is, or
\* a CouplingState that is not wrapped in one
PredictInputs == {TheState, Bare(CouplingState(10, 10, 10, 3, 0))}

LengthOf(x) == IF x.type = "CouplingState" THEN 1 ELSE Len(x.trajectory)

\* the floats the heads may produce
CouplingTriples == {<<9, 8, 7>>, <<12, 12, 12>>}

Logits == {Small(-1000), Small(0), Small(1000)}

\* values for the forward passes a call on x makes, the trajectory growing
\* by up to extra states during the call
ValuesFor(x, extra, T, L) ==
    [LengthOf(x)..(LengthOf(x) + extra) ->
        [couplings : T, logit : L, action : {5}]]

\* the target scales a caller asks for
MaxTargets == 2

TargetScales == {0, 1, 3}

TargetLists == UNION {[1..n -> TargetScales] : n \in 0..MaxTargets}

\* model.predict_final_state(x, target_scale)
PredictFinalState ==
    \E x \in PredictInputs : \E target_scale \in TargetScales :
      \E values \in ValuesFor(x, 0, CouplingTriples, {Small(0)}) :
        ReturnsFor("predict_final_state",
                   [state |-> x, target_scale |-> target_scale, values |-> values],
                   predict_final_state(model, x, target_scale, values))

\* model.predict_fixed_point(x)
PredictFixedPoint ==
    \E x \in PredictInputs : \E values \in ValuesFor(x, 0, {<<9, 8, 7>>}, Logits) :
        ReturnsFor("predict_fixed_point", [state |-> x, values |-> values],
                   predict_fixed_point(model, x, values))

\* model.predict_action(x)
PredictAction ==
    \E x \in PredictInputs :
      \E values \in ValuesFor(x, 0, {<<9, 8, 7>>}, {Small(0)}) :
        ReturnsFor("predict_action", [state |-> x, values |-> values],
                   predict_action(model, x, values))

\* model.predict_trajectory(x, target_scales).  The call has worked on the
\* HolographicState it returns: when that is made of the caller's objects
\* (not of a CouplingState wrapped by the call), the caller's CouplingState
\* objects are as the call left them, and when it is the caller's
\* HolographicState itself, so is that.
PredictTrajectoryOf(inputs, lists) ==
    \E x \in inputs : \E target_scales \in lists :
      \E values \in ValuesFor(x, MaxTargets - 1, {<<9, 8, 7>>}, {Small(0)}) :
        LET r      == predict_trajectory(model, x, target_scales, values)
            shared == ~IsErr(r) /\ r.state.object # "new"
            same   == ~IsErr(r) /\ r.state.object = "state"
        IN  /\ ret' = [op  |-> "predict_trajectory",
                       arg |-> [state |-> x, target_scales |-> target_scales,
                                values |-> values],
                       val |-> r]
            /\ before' = [op |-> "none", val |-> None]
            /\ heap' = IF same THEN r.state.heap
                       ELSE IF shared THEN [o \in DOMAIN heap |-> r.state.heap[o]]
                       ELSE heap
            /\ trajectory' = IF same THEN r.state.trajectory ELSE trajectory
            /\ metadata' = IF same THEN r.state.metadata ELSE metadata
            /\ fixed_point' = IF same THEN r.state.fixed_point ELSE fixed_point
            /\ action' = IF same THEN r.state.action ELSE action
            /\ UNCHANGED <<supplied, model, rng, clone, calls, bundle>>

PredictTrajectory == PredictTrajectoryOf(PredictInputs, TargetLists)

\* model.predict_trajectory(state, target_scales) and
\* model.predict_batch(states) on the caller's trajectory alone
PredictTrajectoryOfState ==
    PredictTrajectoryOf({TheState}, {<<3>>, <<1>>, <<1, 0>>})

PredictBatchOfState ==
    \E states \in {<<TheState>>, <<TheState, TheState>>} :
        ReturnsFor("predict_batch", states, predict_batch(model, states))

\* model.encoder(state)
EncoderCall ==
    ReturnsFor("encoder", TheState, HolographicEncoder_call(model.encoder, TheState))

\* model.decoder(model.encoder(state)[0])
DecoderCall ==
    LET encoded == HolographicEncoder_call(model.encoder, TheState)
    IN  ReturnsFor("decoder", TheState,
                   IF IsErr(encoded) THEN encoded
                   ELSE ResonanceDecoder_forward(model.decoder, encoded.encoding))

\* model.forward(state)
ForwardCall ==
    ReturnsFor("forward", TheState, IRHTransformer_forward(model, TheState))

\* attention(query): key and value default to the query
CallMHADefault ==
    /\ model # None
    /\ model.cls = "MultiHeadAttention"
    /\ \E B \in 1..MaxBatch : \E Lq \in 1..MaxSeqLen :
          Calls("MultiHeadAttention.forward(query)", <<B, Lq>>,
                MultiHeadAttention_forward(model,
                    Input3(B, Lq, model.embed_dim), None, None))

\* decoder(encoded_state) on an input of the decoder's width: two-dimensional,
\* or three-dimensional with a batch axis
CallDecoder ==
    /\ model # None
    /\ model.cls = "ResonanceDecoder"
    /\ \E B \in 1..MaxBatch : \E L \in 0..MaxSeqLen : \E batched \in BOOLEAN :
          LET x == IF batched THEN Input3(B, L, model.embed_dim)
                   ELSE First(Input3(1, L, model.embed_dim))
          IN  Calls("ResonanceDecoder.forward", x,
                    ResonanceDecoder_forward(model, x))

\* the finite hidden vectors handed to a head, and the numbers its weights
\* may hold
HiddenEntries == {Small(1000), Huge(2)}

HeadWeights(D) ==
    {[i \in 1..D |-> Small(1000)],
     [i \in 1..D |-> Small(IF i % 2 = 1 THEN 2000 ELSE -2000)]}

\* decoder._predict_fixed_point(hidden) for one hidden vector
CallFixedPointHead ==
    /\ model # None
    /\ model.cls = "ResonanceDecoder"
    /\ \E hidden \in [1..model.embed_dim -> HiddenEntries] :
        \E W \in HeadWeights(model.embed_dim) : \E fused \in BOOLEAN :
          Calls("_predict_fixed_point",
                [hidden |-> hidden, W |-> W, fused |-> fused],
                ResonanceDecoder_predict_fixed_point(hidden, W, fused))

----------------------------------------------------------------------------
(* forward called by several threads on the one model *)

\* a thread that is in no call
Idle == [pc |-> "idle", state |-> None, encoding |-> None,
         encoder_metadata |-> None, predictions |-> None, value |-> None]

\* the states the threads call forward on, each thread on an object of its
\* own: trajectories of one state, a graph dictionary, and an input the
\* encoder does not take
ThreadInputs ==
    {NewHolographicState(CouplingState(10, 10, 10, 3, 0)),
     NewHolographicState(CouplingState(11, 13, 16, 1, 0)),
     DictOf(RawGraph(2, 1, <<<<0, 1>>>>)),
     [type |-> "NoneType"]}

\* thread t calls model.forward(state)
BeginForward(t) ==
    /\ model # None
    /\ calls[t].pc = "idle"
    /\ \E state \in ThreadInputs :
        calls' = [calls EXCEPT ![t] = [Idle EXCEPT !.pc = "called",
                                                   !.state = state]]
    /\ UNCHANGED <<heap, trajectory, metadata, ret, before, supplied, model,
                   rng, fixed_point, action, clone, bundle>>

\* encoding, encoder_metadata = self.encoder(state); an exception of the
\* encoder ends the call
EncodeStep(t) ==
    /\ calls[t].pc = "called"
    /\ LET encoded == HolographicEncoder_call(model.encoder, calls[t].state)
       IN  calls' = [calls EXCEPT ![t] =
               IF IsErr(encoded)
               THEN [@ EXCEPT !.pc = "returned", !.value = encoded]
               ELSE [@ EXCEPT !.pc = "encoded",
                              !.encoding = encoded.encoding,
                              !.encoder_metadata = encoded.metadata]]
    /\ UNCHANGED <<heap, trajectory, metadata, ret, before, supplied, model,
                   rng, fixed_point, action, clone, bundle>>

\* the encoding some thread other than thread 1 decodes, were it kept in one
\* place for all the threads: the one thread 1 has computed last
EncodingOfThread1(c, t) ==
    IF c[1].encoding # None THEN c[1].encoding ELSE c[t].encoding

\* the local variable encoding of thread t's call
EncodingOf(c, t) == c[t].encoding

\* predictions = self.decoder(encoding); an exception of the decoder ends
\* the call
DecodeStep(t) ==
    /\ calls[t].pc = "encoded"
    /\ LET predictions ==
               ResonanceDecoder_forward(model.decoder, EncodingOf(calls, t))
       IN  calls' = [calls EXCEPT ![t] =
               IF IsErr(predictions)
               THEN [@ EXCEPT !.pc = "returned", !.value = predictions]
               ELSE [@ EXCEPT !.pc = "decoded",
                              !.predictions = predictions]]
    /\ UNCHANGED <<heap, trajectory, metadata, ret, before, supplied, model,
                   rng, fixed_point, action, clone, bundle>>

\* predictions['encoder_metadata'] = encoder_metadata; return predictions
ReturnStep(t) ==
    /\ calls[t].pc = "decoded"
    /\ calls' = [calls EXCEPT ![t] =
           [@ EXCEPT !.pc = "returned",
                     !.value =
                         [err |-> "none",
                          couplings        |-> calls[t].predictions.couplings,
                          is_fixed_point   |-> calls[t].predictions.is_fixed_point,
                          action           |-> calls[t].predictions.action,
                          encoder_metadata |-> calls[t].encoder_metadata]]]
    /\ UNCHANGED <<heap, trajectory, metadata, ret, before, supplied, model,
                   rng, fixed_point, action, clone, bundle>>

\* the caller has taken the value of thread t's call
TakeValue(t) ==
    /\ calls[t].pc = "returned"
    /\ calls' = [calls EXCEPT ![t] = Idle]
    /\ UNCHANGED <<heap, trajectory, metadata, ret, before, supplied, model,
                   rng, fixed_point, action, clone, bundle>>

----------------------------------------------------------------------------
(* GraphAttention called on arrays of doubles *)

\* the finite doubles in the arrays
FiniteDoubles == {Small(1000), Small(3000), Huge(2)}

\* the coefficients of the heads
HeadCoefficients(num_heads) ==
    [head \in 1..num_heads |->
        IF head = 1 THEN <<Small(1000), Small(0), Small(1000)>>
        ELSE <<Small(1000), Small(0), Small(-1000)>>]

\* the layers called: of one or two heads, for arrays of one column
AttentionLayers ==
    {[num_heads |-> H,
      W_node    |-> <<<<Small(w)>>>>,
      W_edge    |-> <<<<Small(1000)>>>>,
      a         |-> HeadCoefficients(H)] :
        H \in 1..2, w \in {1000, 2000}}

\* num_nodes rows of node features, the first holding x
NodeRows(num_nodes, x) ==
    [i \in 1..num_nodes |-> <<IF i = 1 THEN x ELSE Small(1000 * i)>>]

\* the caller appends a node to the graph
AddGraphNode ==
    /\ Len(bundle.node_features) < MaxAttNodes
    /\ \E x \in {Small(1000), Huge(2)} :
        bundle' = [bundle EXCEPT !.node_features = Append(@, <<x>>)]
    /\ UNCHANGED <<heap, trajectory, metadata, ret, before, supplied, model,
                   rng, fixed_point, action, clone, calls>>

\* the caller appends an edge to the graph: from the first or the last node,
\* to the first or the last node or to index -1
AddGraphEdge ==
    /\ Len(bundle.node_features) > 0
    /\ Len(bundle.edge_features) < MaxAttEdges
    /\ \E src \in {0, Len(bundle.node_features) - 1} :
        \E dst \in {-1, 0, Len(bundle.node_features) - 1} :
          \E e \in FiniteDoubles :
            bundle' = [bundle EXCEPT !.edge_features = Append(@, <<e>>),
                                   !.adjacency = Append(@, <<src, dst>>)]
    /\ UNCHANGED <<heap, trajectory, metadata, ret, before, supplied, model,
                   rng, fixed_point, action, clone, calls>>

\* layer(node_features, edge_features, adjacency) on the caller's graph
CallGraphAttention ==
    /\ \E fused \in BOOLEAN :
        ret' = [op  |-> "GraphAttention.forward",
                arg |-> [layer |-> model,
                         node_features |-> bundle.node_features,
                         edge_features |-> bundle.edge_features,
                         adjacency |-> bundle.adjacency,
                         fused |-> fused],
                val |-> GraphAttentionDoubles(model, bundle.node_features,
                            bundle.edge_features, bundle.adjacency, fused)]
    /\ before' = [op |-> "none", val |-> None]
    /\ UNCHANGED <<heap, trajectory, metadata, supplied, model, rng,
                   fixed_point, action, clone, calls, bundle>>

\* the encoders of the trajectory graphs: embeddings and one layer
TrajectoryEncoders ==
    {[node_embedding |-> <<<<Small(1000)>>>>,
      edge_embedding |-> <<<<Small(w)>>>>,
      layer |-> [num_heads |-> H,
                 W_node    |-> <<<<Small(1000)>>>>,
                 W_edge    |-> <<<<Small(1000)>>>>,
                 a         |-> HeadCoefficients(H)]] :
        H \in 1..2, w \in {1000, 2000}}

\* the encoder's first pass over the graph of a trajectory, a product being
\* rounded before it is added
EncodeTrajectory ==
    /\ \E enc \in {model} : \E num_nodes \in 1..MaxTrajNodes :
        \E x \in {Small(1000), Huge(2)} :
          \E edge_features \in [1..(num_nodes - 1) -> {<<e>> : e \in FiniteDoubles}] :
            ret' = [op  |-> "encode_graph",
                    arg |-> [enc |-> enc,
                             node_features |-> NodeRows(num_nodes, x),
                             edge_features |-> edge_features],
                    val |-> EncodeTrajectoryDoubles(enc,
                                NodeRows(num_nodes, x), edge_features, FALSE)]
    /\ before' = [op |-> "none", val |-> None]
    /\ UNCHANGED <<heap, trajectory, metadata, supplied, model, rng,
                   fixed_point, action, clone, calls, bundle>>

\* the same encoder called again, on a trajectory of the same node features
\* and as many edges
EncodeAnother ==
    /\ ret.op = "encode_graph"
    /\ \E edge_features \in [1..Len(ret.arg.edge_features) ->
                                {<<e>> : e \in FiniteDoubles}] :
          ret' = [op  |-> "encode_graph",
                  arg |-> [ret.arg EXCEPT !.edge_features = edge_features],
                  val |-> EncodeTrajectoryDoubles(ret.arg.enc,
                              ret.arg.node_features, edge_features, FALSE)]
    /\ before' = ret
    /\ UNCHANGED <<heap, trajectory, metadata, supplied, model, rng,
                   fixed_point, action, clone, calls, bundle>>

----------------------------------------------------------------------------
(* The specifications *)

NoModel == model = None /\ rng = 0

\* The trajectory container alone
Init == NoModel /\ \E s \in InputStates : InitState(s)

Next ==
    \/ AddNewStep(InputStates, InputBetas, MaxLen)
    \/ AddSameStep(InputBetas, MaxLen)
    \/ ToGraph

Spec == Init /\ [][Next]_vars

ModelConfigs == {Config(4, 2, 3, 1, 2), Config(2, 1, 1, 0, 1)}

\* IRHTransformer(**cfg) has been constructed, first thing in the process
ModelBuilt(cfgs) ==
    \E cfg \in cfgs :
        LET built == NewIRHTransformer(cfg, 0)
        IN  /\ ~IsErr(built)
            /\ model = built.obj
            /\ rng = built.rng

\* A trajectory and a model: the encoder and the model called on it
MaxEncLen == 3

EncStates == {CouplingState(10, 10, 10, 3, 0), CouplingState(11, 13, 16, 1, 0)}

InitEnc == ModelBuilt(ModelConfigs) /\ \E s \in EncStates : InitState(s)

\* steps are added without a rate-of-change triple, or, for the second
\* state, with one
NextEnc ==
    \/ AddNewStep(EncStates, {}, MaxEncLen)
    \/ AddNewStep({CouplingState(11, 13, 16, 1, 0)}, InputBetas, MaxEncLen)
    \/ EncodeState
    \/ EncodeGraphOfState
    \/ EncodeOther
    \/ ForwardState
    \/ ForwardOther

SpecEnc == InitEnc /\ [][NextEnc]_vars

\* A model called on raw graph bundles
InitRaw == ModelBuilt(ModelConfigs) /\ InitState(CouplingState(10, 10, 10, 1, 0))

NextRaw ==
    \/ EncodeDict
    \/ ForwardDict

SpecRaw == InitRaw /\ [][NextRaw]_vars

\* The modules constructed and called one by one
InitModules == NoModel /\ InitState(CouplingState(10, 10, 10, 1, 0))

NextModules ==
    \/ ConstructMHA
    \/ ConstructPE
    \/ ConstructEncoder
    \/ ConstructDecoder
    \/ ConstructModel
    \/ CallMHA
    \/ CallPE

SpecModules == InitModules /\ [][NextModules]_vars

\* Long trajectories: one more state than the positional-encoding table holds
MaxLongLen == 1001

LongStates == {CouplingState(10, 10, 10, 1, 0)}

LongConfigs == {Config(4, 2, 3, 1, 2)}

InitLong == ModelBuilt(LongConfigs) /\ \E s \in LongStates : InitState(s)

NextLong ==
    \/ AddNewStep(LongStates, {}, MaxLongLen)
    \/ EncodeShape

SpecLong == InitLong /\ [][NextLong]_vars

\* A trajectory and a model: the inference calls of the model
MaxPredLen == 2

InitPredict == ModelBuilt(ModelConfigs) /\ \E s \in EncStates : InitState(s)

NextPredict ==
    \/ AddNewStep({CouplingState(10, 10, 10, 3, 0)}, {}, MaxPredLen)
    \/ EncoderCall
    \/ DecoderCall
    \/ ForwardCall
    \/ PredictFinalState
    \/ PredictFixedPoint
    \/ PredictTrajectory
    \/ PredictAction
    \/ PredictBatch

SpecPredict == InitPredict /\ [][NextPredict]_vars

\* The trajectory container and its copy
\* the CouplingState objects the caller makes, and the longest trajectory
MaxObjects == 2
MaxStateLen == 2

MadeStates == {CouplingState(11, 13, 16, 1, 0)}

InitContainer == NoModel /\ InitState(CouplingState(10, 10, 10, 3, 0))

NextContainer ==
    \/ MakeCouplingState(MadeStates, MaxObjects)
    \/ AddOwnStep(MaxStateLen)
    \/ CheckFixedPoint
    \/ ComputeAction
    \/ CopyState
    \/ CloneAddStep(MaxStateLen)
    \/ CloneCheckFixedPoint
    \/ WriteThroughState
    \/ WriteThroughClone

SpecContainer == InitContainer /\ [][NextContainer]_vars

\* A trajectory with its fixed point and action, and the inference calls
InitFrame ==
    /\ ModelBuilt({Config(2, 1, 1, 0, 1)})
    /\ InitState(CouplingState(10, 10, 10, 3, 0))

NextFrame ==
    \/ AddNewStep({CouplingState(10, 10, 10, 3, 0)}, {}, MaxStateLen)
    \/ CheckFixedPoint
    \/ ComputeAction
    \/ ForwardCall
    \/ PredictFinalState
    \/ PredictFixedPoint
    \/ PredictAction
    \/ PredictBatchOfState
    \/ PredictTrajectoryOfState

SpecFrame == InitFrame /\ [][NextFrame]_vars

\* The engine constructed and called
MaxSteps == 2

\* engine = ResonanceEngine(...)
ConstructEngine ==
    \E tolerance \in {1, 4} : \E max_iterations \in 1..MaxSteps :
      \E betas \in {<<0, 0, 0>>, <<-3, -2, 1>>} :
        /\ model' = NewResonanceEngine(tolerance, max_iterations, betas)
        /\ ret' = [op |-> "ResonanceEngine", val |-> None]
        /\ before' = [op |-> "none", val |-> None]
        /\ UNCHANGED <<heap, trajectory, metadata, supplied, rng, fixed_point,
                       action, clone, calls, bundle>>

Methods == {"euler", "rk4", "rk2"}

\* engine.integrate_rg_flow(initial_state, k_final, num_steps, method)
IntegrateRGFlow ==
    /\ model # None
    /\ \E initial_state \in {CouplingState(10, 10, 10, 0, 0)} :
       \E k_final \in {0, -6} :
       \E num_steps \in {None} \cup {Some(n) : n \in 0..MaxSteps} :
       \E method \in Methods :
          ReturnsFor("integrate_rg_flow",
                     [initial_state |-> initial_state, k_final |-> k_final,
                      num_steps |-> num_steps, method |-> method],
                     integrate_rg_flow(model, initial_state, k_final, num_steps,
                                       method))

InitEngine == NoModel /\ InitState(CouplingState(10, 10, 10, 3, 0))

NextEngine ==
    \/ ConstructEngine
    \/ IntegrateRGFlow

SpecEngine == InitEngine /\ [][NextEngine]_vars

\* forward called by the threads on the one model, in any interleaving of
\* the steps of the calls
InitThreads ==
    ModelBuilt(ModelConfigs) /\ InitState(CouplingState(10, 10, 10, 3, 0))

NextThreads ==
    \E t \in Threads :
        \/ BeginForward(t)
        \/ EncodeStep(t)
        \/ DecodeStep(t)
        \/ ReturnStep(t)
        \/ TakeValue(t)

SpecThreads == InitThreads /\ [][NextThreads]_vars

\* a GraphAttention layer called on the graphs of doubles the caller builds
InitAttention ==
    /\ model \in AttentionLayers
    /\ rng = 0
    /\ InitState(CouplingState(10, 10, 10, 3, 0))

NextAttention ==
    \/ AddGraphNode
    \/ AddGraphEdge
    \/ CallGraphAttention

SpecAttention == InitAttention /\ [][NextAttention]_vars

\* trajectory graphs of doubles encoded, and encoded again with other edge
\* features
InitTrajectories ==
    /\ model \in TrajectoryEncoders
    /\ rng = 0
    /\ InitState(CouplingState(10, 10, 10, 3, 0))

NextTrajectories ==
    \/ EncodeTrajectory
    \/ EncodeAnother

SpecTrajectories == InitTrajectories /\ [][NextTrajectories]_vars

\* The attention module and the decoder constructed and called
InitCalls == NoModel /\ InitState(CouplingState(10, 10, 10, 1, 0))

NextCalls ==
    \/ ConstructMHA
    \/ ConstructDecoder
    \/ CallMHA
    \/ CallMHADefault
    \/ CallDecoder
    \/ CallFixedPointHead

SpecCalls == InitCalls /\ [][NextCalls]_vars

----------------------------------------------------------------------------
(* The graph of a trajectory *)

Graph == ret.val

GraphReturned == ret.op = "to_graph_representation"

\* C1: after construction and any add_rg_step calls, with N = the number of
\* states, to_graph_representation returns N node rows of 4 features,
\* max(N-1, 0) edge rows of 3 features and an adjacency whose row i is
\* (i, i+1); for N = 1 the edge and adjacency arrays exist with shapes
\* (0, 3) and (0, 2).
C1_GraphShapes ==
    GraphReturned =>
        LET N == Len(trajectory)
        IN  /\ N >= 1
            /\ ~IsErr(Graph)
            /\ Graph.node_features.shape = <<N, 4>>
            /\ Len(Graph.node_features.rows) = N
            /\ \A i \in 1..N : Len(Graph.node_features.rows[i]) = 4
            /\ Graph.edge_features.shape = <<Max(N - 1, 0), 3>>
            /\ Len(Graph.edge_features.rows) = Max(N - 1, 0)
            /\ \A i \in 1..(N - 1) : Len(Graph.edge_features.rows[i]) = 3
            /\ Graph.adjacency.shape = <<Max(N - 1, 0), 2>>
            /\ Len(Graph.adjacency.rows) = Max(N - 1, 0)
            /\ \A i \in 0..(N - 2) : Graph.adjacency.rows[i + 1] = <<i, i + 1>>
            /\ Graph.num_nodes = N

\* a single-state trajectory was converted
C1_Witness ==
    /\ GraphReturned
    /\ Len(trajectory) = 1
    /\ Graph.edge_features.shape = <<0, 3>>
    /\ Graph.adjacency.shape = <<0, 2>>

\* C2: the edge feature of the transition i -> i+1 is the triple supplied
\* with the add_rg_step call that appended state i+1 when one was supplied;
\* otherwise the difference of the couplings divided by dk = k[i+1] - k[i],
\* and exactly (0, 0, 0), with no division, when |dk| <= 1e-12.
C2_EdgeFeatures ==
    GraphReturned =>
        /\ ~IsErr(Graph)
        /\ \A i \in 0..(Len(trajectory) - 2) :
              LET edge == Graph.edge_features.rows[i + 1]
                  curr == heap[trajectory[i + 2]]
                  prev_ == heap[trajectory[i + 1]]
                  dk   == curr.k - prev_.k
              IN  IF supplied[i + 2] # None
                  THEN \A c \in 1..3 :
                          edge[c] = [num |-> supplied[i + 2].val[c], den |-> 1]
                  ELSE IF dk > SCALE_DIFF_TOLERANCE \/ dk < -SCALE_DIFF_TOLERANCE
                  THEN /\ edge[1] = [num |-> curr.lambda_tilde - prev_.lambda_tilde, den |-> dk]
                       /\ edge[2] = [num |-> curr.gamma_tilde - prev_.gamma_tilde, den |-> dk]
                       /\ edge[3] = [num |-> curr.mu_tilde - prev_.mu_tilde, den |-> dk]
                  ELSE \A c \in 1..3 : edge[c] = [num |-> 0, den |-> 1]

\* a graph with a supplied triple, a divided difference and a guarded
\* difference of scales exactly at the tolerance
C2_Witness ==
    /\ GraphReturned
    /\ Len(trajectory) >= 3
    /\ \E i \in 2..Len(trajectory) : supplied[i] # None
    /\ \E i \in 2..Len(trajectory) :
          /\ supplied[i] = None
          /\ Abs(heap[trajectory[i]].k - heap[trajectory[i - 1]].k) = SCALE_DIFF_TOLERANCE
          /\ heap[trajectory[i]].mu_tilde # heap[trajectory[i - 1]].mu_tilde

----------------------------------------------------------------------------
(* The encoder on trajectories *)

EncodedShape == ret.op = "encoder(state).shape"

\* C3: for every trajectory of N >= 1 nodes, encoding it succeeds and returns
\* an encoding of shape exactly (N, hidden_width).
C3_EveryLengthEncodes ==
    EncodedShape =>
        /\ Len(trajectory) >= 1
        /\ ~IsErr(ret.val)
        /\ ret.val.shape = <<Len(trajectory), model.encoder.embed_dim>>

\* C3 as the code has it: for every trajectory of 1 <= N <= 1000 nodes, 1000
\* being the length of the encoder's positional-encoding table, encoding it
\* succeeds and returns an encoding of shape exactly (N, hidden_width); for
\* N > 1000 the call raises ValueError.
C3_LengthsUpToTableEncode ==
    EncodedShape =>
        LET N == Len(trajectory)
        IN  /\ N >= 1
            /\ IF N <= EncoderMaxLen
               THEN /\ ~IsErr(ret.val)
                    /\ ret.val.shape = <<N, model.encoder.embed_dim>>
                    /\ ret.val.metadata.num_nodes = N
               ELSE ret.val = Raise("ValueError")

\* a trajectory exactly as long as the table was encoded
C3_Witness ==
    /\ EncodedShape
    /\ Len(trajectory) = EncoderMaxLen
    /\ ret.val.err = "none"
    /\ ret.val.shape = <<EncoderMaxLen, model.encoder.embed_dim>>

EncodedBothWays ==
    \/ ret.op = "encoder(graph)" /\ before.op = "encoder(state)"
    \/ ret.op = "encoder(state)" /\ before.op = "encoder(graph)"

\* C4: for one encoder and any trajectory, the encoder called on the
\* HolographicState and called on the dict of its to_graph_representation
\* produce the same encoding and the same metadata.
C4_RoundTrip ==
    EncodedBothWays =>
        /\ ret.val.err = before.val.err
        /\ ~IsErr(ret.val)
        /\ ret.val.encoding = before.val.encoding
        /\ ret.val.metadata = before.val.metadata

\* a trajectory with edges went both ways through attention layers
C4_Witness ==
    /\ ret.op = "encoder(graph)"
    /\ before.op = "encoder(state)"
    /\ Len(trajectory) = MaxEncLen
    /\ ~IsErr(ret.val)
    /\ ret.val.gat_calls = 2
    /\ ret.val.metadata.num_edges = MaxEncLen - 1

EncodedSingleNode ==
    /\ ret.op \in {"encoder(state)", "encoder(graph)"}
    /\ Len(trajectory) = 1

\* C5: encoding a single-node trajectory (a graph of zero edges) never fails
\* and invokes no GraphAttention layer: the result is the node embedding plus
\* the positional encoding passed through the output projection, and the
\* metadata reports num_nodes = 1 and num_edges = 0.
C5_ZeroEdgesSkipLayers ==
    EncodedSingleNode =>
        LET enc == model.encoder
        IN  /\ ~IsErr(ret.val)
            /\ ret.val.gat_calls = 0
            /\ ret.val.encoding.shape = <<1, enc.embed_dim>>
            /\ ret.val.encoding.rows[1] =
                  [op |-> "dot", W |-> enc.output_projection,
                   x  |-> [op |-> "add",
                           x  |-> [op |-> "relu_linear", W |-> enc.node_embedding.W,
                                   feat |-> to_array(heap[trajectory[1]])],
                           y  |-> [op |-> "row", of |-> enc.positional_encoding.pe,
                                   pos |-> 0]]]
            /\ ret.val.metadata.num_nodes = 1
            /\ ret.val.metadata.num_edges = 0

\* a single-node trajectory was encoded by an encoder of two layers
C5_Witness ==
    /\ EncodedSingleNode
    /\ ret.op = "encoder(state)"
    /\ model.encoder.num_layers = 2
    /\ ret.val.err = "none"
    /\ ret.val.metadata.input_shapes.edges = <<0, 3>>

CalledWithOther == ret.op \in {"encoder(other)", "forward(other)"}

\* C9: the encoder, or the model's forward, called with an input that is
\* neither a HolographicState nor a graph dict fails with a TypeError and
\* returns no prediction.
C9_OtherInputTypeError ==
    CalledWithOther =>
        /\ ret.arg.type \notin {"HolographicState", "dict"}
        /\ ret.val = Raise("TypeError")

\* the model's forward was called with None
C9_Witness ==
    /\ ret.op = "forward(other)"
    /\ ret.arg.type = "NoneType"
    /\ ret.val.err = "TypeError"

----------------------------------------------------------------------------
(* Raw graph bundles *)

CalledWithDict == ret.op \in {"encoder(dict)", "forward(dict)"}

\* the bundle has an adjacency row with an index outside 0..num_nodes-1
OutOfRange(graph) ==
    \E j \in 1..graph.adjacency.shape[1] : \E c \in 1..2 :
        \/ graph.adjacency.rows[j][c] < 0
        \/ graph.adjacency.rows[j][c] >= graph.node_features.shape[1]

\* C10: encoding a graph whose adjacency holds a source or destination index
\* outside 0..num_nodes-1, negative ones included, fails the call with an
\* error; the edge is never accepted, wrapped around or dropped. (Stated for
\* bundles of as many adjacency rows as edge-feature rows.)
C10_OutOfRangeIndexFails ==
    (/\ CalledWithDict
     /\ ret.arg.adjacency.shape[1] = ret.arg.edge_features.shape[1]
     /\ OutOfRange(ret.arg))
        => IsErr(ret.val)

----------------------------------------------------------------------------
(* Construction of the modules *)

Indivisible(embed_dim, num_heads) == embed_dim % num_heads # 0

\* C6: constructing a MultiHeadAttention whose embed_dim is not divisible by
\* num_heads raises ValueError during construction, before any weight is
\* drawn, and never at call time (a call fails on an empty key sequence
\* only); when it is divisible, head_dim = embed_dim / num_heads.
C6_HeadsDivideWidth ==
    /\ ret.op = "MultiHeadAttention" =>
          LET embed_dim == ret.arg[1]
              num_heads == ret.arg[2]
          IN  IF Indivisible(embed_dim, num_heads)
              THEN ret.val = Raise("ValueError") /\ ret.draws = 0
              ELSE /\ ~IsErr(ret.val)
                   /\ ret.val.obj.head_dim * num_heads = embed_dim
                   /\ ret.draws = 4
    /\ ret.op = "MultiHeadAttention.forward" =>
          /\ ~Indivisible(model.embed_dim, model.num_heads)
          /\ IsErr(ret.val) <=> ret.arg[3] = 0
          /\ ~IsErr(ret.val) => ret.val.shape = <<ret.arg[1], ret.arg[2], model.embed_dim>>

\* MultiHeadAttention(4, 3) was refused after three weights had been drawn
\* for an encoder, which stays bound, and no weight was drawn since
C6_Witness ==
    /\ ret.op = "MultiHeadAttention"
    /\ ret.arg = <<4, 3>>
    /\ ret.val.err = "ValueError"
    /\ ret.draws = 0
    /\ rng = 3
    /\ model # None
    /\ model.cls = "HolographicEncoder"

\* C7: constructing a HolographicEncoder, a ResonanceDecoder or an
\* IRHTransformer with an embed_dim that is not divisible by its head count
\* raises an error at construction, for every layer count, before any tensor
\* is made.
C7_IndivisibleRefused ==
    /\ ret.op \in {"HolographicEncoder", "ResonanceDecoder"} =>
          (Indivisible(ret.arg[1], ret.arg[3]) =>
              IsErr(ret.val) /\ ret.draws = 0)
    /\ ret.op = "IRHTransformer" =>
          ((\/ Indivisible(ret.arg.embed_dim, ret.arg.encoder_heads)
            \/ Indivisible(ret.arg.embed_dim, ret.arg.decoder_heads)) =>
              IsErr(ret.val) /\ ret.draws = 0)

\* C8: PositionalEncoding.forward on an input of sequence length L raises
\* ValueError exactly when L > max_len; for every L <= max_len it returns the
\* input plus the first L rows of the table, broadcast over the batch, and
\* the table is left as the constructor made it.
C8_LengthExceeded ==
    ret.op = "PositionalEncoding.forward" =>
        LET x == ret.arg
            B == x.shape[1]
            L == x.shape[2]
        IN  /\ IsErr(ret.val) <=> L > model.max_len
            /\ IsErr(ret.val) => ret.val = Raise("ValueError")
            /\ ~IsErr(ret.val) =>
                  /\ ret.val.shape = <<B, L, model.embed_dim>>
                  /\ \A b \in 1..B : \A i \in 1..L :
                        ret.val.rows[b][i] =
                            [op |-> "add", x |-> x.rows[b][i],
                             y  |-> [op |-> "row", of |-> model.pe, pos |-> i - 1]]
            /\ model.pe = [err |-> "none", op |-> "sinusoid",
                           shape |-> <<model.max_len, model.embed_dim>>]

\* a batch of two sequences exactly as long as the table got its encoding
C8_Witness ==
    /\ ret.op = "PositionalEncoding.forward"
    /\ ret.arg.shape[1] = 2
    /\ ret.arg.shape[2] = model.max_len
    /\ model.max_len = MaxPELen
    /\ ret.val.err = "none"

----------------------------------------------------------------------------
(* Batches *)

BatchReturned == ret.op = "predict_batch" /\ ~IsErr(ret.val)

\* C11: predict_batch on a list of K items forward accepts returns K
\* predictions, the i-th being what forward returns for the i-th item alone
C11_BatchIsItemwise ==
    BatchReturned =>
        /\ Len(ret.val.predictions) = Len(ret.arg)
        /\ \A i \in 1..Len(ret.arg) :
              ret.val.predictions[i] = IRHTransformer_forward(model, ret.arg[i])

\* a batch of two different trajectories has come back, with two different
\* predictions
C11_Witness ==
    /\ BatchReturned
    /\ Len(ret.arg) = 2
    /\ ret.arg[1] # ret.arg[2]
    /\ Len(trajectory) = 2
    /\ ret.arg[1] = TheState
    /\ ret.val.predictions[1] # ret.val.predictions[2]

\* C12: predict_batch returns one prediction for every item, be it a
\* HolographicState or a CouplingState that is not wrapped in one
C12_BatchTakesBareStates ==
    ret.op = "predict_batch" =>
        /\ ~IsErr(ret.val)
        /\ Len(ret.val.predictions) = Len(ret.arg)

----------------------------------------------------------------------------
(* Predictions *)

FixedPointReturned == ret.op = "predict_fixed_point" /\ ~IsErr(ret.val)

\* the floats of the forward pass on the initial_state argument of the call
ValuesOfInput == ret.arg.values[LengthOf(ret.arg.state)]

\* C13: predict_fixed_point returns (candidate, p), p being the probability
\* of the fixed-point head for the input; candidate is a CouplingState
\* exactly when p > 0.5 and None otherwise, p = 0.5 included; a candidate has
\* the three outputs of the coupling head, k = 0.0 and level = -1
C13_FixedPointAboveHalf ==
    FixedPointReturned =>
        LET p == Sigmoid(ValuesOfInput.logit)
            c == ValuesOfInput.couplings
        IN  /\ ret.val.confidence = p
            /\ (ret.val.fixed_point # None) <=> (p.cls = "small" /\ p.val > 500)
            /\ ret.val.fixed_point # None =>
                  ret.val.fixed_point = Some(CouplingState(c[1], c[2], c[3], 0, -1))

\* a probability of exactly 0.5 has come back with no candidate, for a
\* trajectory of two states
C13_Witness ==
    /\ FixedPointReturned
    /\ ret.arg.state.type = "HolographicState"
    /\ Len(trajectory) = 2
    /\ ret.val.confidence = Small(500)
    /\ ret.val.fixed_point = None

TrajectoryReturned == ret.op = "predict_trajectory" /\ ~IsErr(ret.val)

\* the scale of the last state of the initial_state argument
InputScale ==
    IF ret.arg.state.type = "CouplingState" THEN ret.arg.state.state.k
    ELSE get_current_state(ret.arg.state).k

\* the targets taken of a list, each being below the scale k reached so far
RECURSIVE Accepted(_, _)
Accepted(targets, k) ==
    IF targets = <<>> THEN <<>>
    ELSE IF Head(targets) < k
    THEN <<Head(targets)>> \o Accepted(Tail(targets), Head(targets))
    ELSE Accepted(Tail(targets), k)

\* the scales of the states predict_trajectory has appended to its input
AppendedScales ==
    LET out == ret.val.state
        n   == LengthOf(ret.arg.state)
    IN  [j \in 1..(Len(out.trajectory) - n) |-> out.heap[out.trajectory[n + j]].k]

\* C14: predict_trajectory takes the targets in order and appends one state
\* for each target strictly below the scale of the current last state and
\* none for any other: the appended scales are the targets taken, strictly
\* decreasing and below the scale of the last input state, and the result is
\* longer than the input by their number
C14_TrajectoryTakesSmallerTargets ==
    TrajectoryReturned =>
        LET taken == Accepted(ret.arg.target_scales, InputScale)
        IN  /\ Len(ret.val.state.trajectory) = LengthOf(ret.arg.state) + Len(taken)
            /\ AppendedScales = taken
            /\ \A j \in 1..Len(AppendedScales) :
                  /\ AppendedScales[j] < InputScale
                  /\ j > 1 => AppendedScales[j] < AppendedScales[j - 1]

\* of the targets (3, 1) on a trajectory of two states ending at scale 3,
\* the first has been skipped and the second appended
C14_Witness ==
    /\ TrajectoryReturned
    /\ ret.arg.state.type = "HolographicState"
    /\ Len(trajectory) = 2
    /\ InputScale = 3
    /\ ret.arg.target_scales = <<3, 1>>
    /\ AppendedScales = <<1>>

FinalStateReturned == ret.op = "predict_final_state" /\ ~IsErr(ret.val)

\* C15: predict_final_state, for a CouplingState (wrapped into a trajectory
\* of one state) or a HolographicState, returns a CouplingState with
\* k = target_scale, the three outputs of the coupling head for that
\* trajectory, and level = the length of the input trajectory
C15_FinalStateAtTarget ==
    FinalStateReturned =>
        LET c == ValuesOfInput.couplings
        IN  ret.val.state = CouplingState(c[1], c[2], c[3], ret.arg.target_scale,
                                          LengthOf(ret.arg.state))

\* a state at scale 0 and level 2 has been predicted for a trajectory of two
\* states ending at scale 3
C15_Witness ==
    /\ FinalStateReturned
    /\ ret.arg.state.type = "HolographicState"
    /\ Len(trajectory) = 2
    /\ get_current_state(ret.arg.state).k = 3
    /\ ret.val.state.k = 0
    /\ ret.val.state.level = 2
    /\ ret.val.state.lambda_tilde = 12

\* C20: no inference call (forward, predict_final_state, predict_fixed_point,
\* predict_trajectory, predict_action, predict_batch, the encoder, the
\* decoder) changes a weight, the positional-encoding table, trained or
\* training_history: the model stays as its constructor made it
C20_InferenceKeepsWeights == [][model' = model /\ rng' = rng]_vars

\* a trajectory has been predicted two states further, and the model is the
\* one the constructor returned
C20_Witness ==
    /\ TrajectoryReturned
    /\ Len(AppendedScales) = 2
    /\ \E cfg \in ModelConfigs : model = NewIRHTransformer(cfg, 0).obj
    /\ model.trained = FALSE
    /\ model.training_history = <<>>

----------------------------------------------------------------------------
(* The decoder and the attention module called *)

DecoderReturned == ret.op = "ResonanceDecoder.forward" /\ ~IsErr(ret.val)

\* the batch size of the input of the decoder call: a two-dimensional input
\* is a batch of one
BatchSizeOfInput == IF Len(ret.arg.shape) = 2 THEN 1 ELSE ret.arg.shape[1]

\* the input as a batch: memory[b] is the encoder output of batch item b
MemoryOfInput == IF Len(ret.arg.shape) = 2 THEN <<ret.arg.rows>> ELSE ret.arg.rows

\* C16: ResonanceDecoder.forward squeezes the batch axis exactly when the
\* batch size is 1 (a 2-D input, or a 3-D one of one item): shapes (3,), (1,)
\* and (1,); for a batch size B > 1 the shapes are (B,3), (B,1) and (B,1)
C16_SqueezesSingleBatch ==
    DecoderReturned =>
        IF BatchSizeOfInput = 1
        THEN /\ ret.val.couplings.shape = <<3>>
             /\ ret.val.is_fixed_point.shape = <<1>>
             /\ ret.val.action.shape = <<1>>
        ELSE /\ ret.val.couplings.shape = <<BatchSizeOfInput, 3>>
             /\ ret.val.is_fixed_point.shape = <<BatchSizeOfInput, 1>>
             /\ ret.val.action.shape = <<BatchSizeOfInput, 1>>

\* a batch of two encoder outputs has been decoded by a decoder of one layer
C16_Witness ==
    /\ DecoderReturned
    /\ model.num_layers = 1
    /\ ret.arg.shape = <<2, 2, model.embed_dim>>
    /\ ret.val.couplings.shape = <<2, 3>>
    /\ Len(ret.val.couplings.rows) = 2

\* the hidden vector h that came out of l decoder layers was computed from
\* the last node of mem as the one query, each layer cross-attending to all
\* of mem
RECURSIVE DecodedFrom(_, _, _)
DecodedFrom(h, l, mem) ==
    IF l = 0 THEN mem # <<>> /\ h = mem[Len(mem)]
    ELSE LET query2 == h.x.x
             cross  == query2.x.y
             query1 == query2.x.x
             self_  == query1.x.y
             query0 == query1.x.x
         IN  /\ cross.op = "attention"
             /\ [j \in 1..Len(cross.k) |-> cross.k[j].x] = mem
             /\ [j \in 1..Len(cross.v) |-> cross.v[j].x] = mem
             /\ cross.q.x = query1
             \* the layer's query is a sequence of length 1
             /\ self_.op = "attention"
             /\ self_.q.x = query0
             /\ [j \in 1..Len(self_.k) |-> self_.k[j].x] = <<query0>>
             /\ DecodedFrom(query0, l - 1, mem)

\* the hidden vector a head has read for batch item b
HeadInput(prediction, b) ==
    IF BatchSizeOfInput = 1 THEN prediction.rows.x ELSE prediction.rows[b].x

\* C17: without target queries, the query of the first decoder layer is the
\* last node of the encoder output as a sequence of length 1, every layer
\* cross-attends to the whole encoder output, and the three heads read the
\* hidden vector of the last query position
C17_LastNodeIsQuery ==
    DecoderReturned =>
        \A b \in 1..BatchSizeOfInput :
            /\ DecodedFrom(HeadInput(ret.val.couplings, b), model.num_layers,
                           MemoryOfInput[b])
            /\ HeadInput(ret.val.is_fixed_point, b) = HeadInput(ret.val.couplings, b)
            /\ HeadInput(ret.val.action, b) = HeadInput(ret.val.couplings, b)

\* a decoder of one layer has decoded an encoder output of two nodes
C17_Witness ==
    /\ DecoderReturned
    /\ model.num_layers = 1
    /\ ret.arg.shape = <<2, model.embed_dim>>
    /\ HeadInput(ret.val.couplings, 1).x.x.x.y.k[1].x = ret.arg.rows[1]
    /\ HeadInput(ret.val.couplings, 1).x.x.x.x.x.x = ret.arg.rows[2]

\* C18: for every finite hidden vector the output of the fixed-point head,
\* the sigmoid of its logit, lies in [0, 1]
C18_SigmoidInUnitInterval ==
    ret.op = "_predict_fixed_point" =>
        /\ ret.val.cls = "small"
        /\ ret.val.val >= 0
        /\ ret.val.val <= 1000

AttentionCalled ==
    \/ ret.op = "MultiHeadAttention.forward" /\ ret.arg[3] >= 1
    \/ ret.op = "MultiHeadAttention.forward(query)"

\* C19: MultiHeadAttention.forward returns an output of the query's shape
\* (B, Lq, D) for every key/value length Lk >= 1, equal to Lq or not, key
\* and value being given or defaulting to the query
C19_OutputHasQueryShape ==
    AttentionCalled =>
        /\ ~IsErr(ret.val)
        /\ ret.val.shape = <<ret.arg[1], ret.arg[2], model.embed_dim>>

\* two queries per batch item have attended to one key
C19_Witness ==
    /\ ret.op = "MultiHeadAttention.forward"
    /\ ret.arg = <<2, 2, 1>>
    /\ ret.val.shape = <<2, 2, model.embed_dim>>
    /\ model.num_heads = 2

----------------------------------------------------------------------------
(* The CouplingState objects of the caller *)

\* the operations of the trajectory container, on the state or on its copy
ContainerOps ==
    {"add_rg_step", "check_fixed_point", "compute_action", "copy",
     "copy.add_rg_step", "copy.check_fixed_point"}

\* C22: no operation of the trajectory container changes a field of a
\* CouplingState object that exists when the operation is called (every one of
\* them is the caller's: supplied to the container, or returned by copy)
C22_CouplingStatesReadOnly ==
    [][ret'.op \in ContainerOps =>
           \A o \in DOMAIN heap : heap'[o] = heap[o]]_vars

\* C24: in a trajectory built by add_rg_step calls, the state at every index
\* i >= 1 has level = i, and metadata holds the key beta_i exactly for the
\* indices whose step was added with a rate-of-change triple
C24_LevelsAreIndices ==
    \A i \in 1..(Len(trajectory) - 1) :
        /\ StateAt(heap, trajectory, i).level = i
        /\ beta_key_in(metadata, i) <=> supplied[i + 1] # None

----------------------------------------------------------------------------
(* The copy of a trajectory *)

\* what a caller reads through a HolographicState: the values of its
\* trajectory states, its metadata, the values of its fixed point, its action
ViewOf(h, t, md, fp, a) ==
    [trajectory  |-> [i \in DOMAIN t |-> h[t[i]]],
     metadata    |-> md,
     fixed_point |-> IF fp = None THEN None ELSE Some(h[fp.val]),
     action      |-> a]

StateView == ViewOf(heap, trajectory, metadata, fixed_point, action)

CloneView ==
    ViewOf(heap, clone.val.trajectory, clone.val.metadata, clone.val.fixed_point,
           clone.val.action)

\* C25: copy returns a state that reads as the original does, and from then
\* on no add_rg_step, check_fixed_point, compute_action or field write made
\* through one of the two changes what is read through the other (the caller
\* passing no CouplingState of the one to the other)
C25_CopyIsDeep ==
    [][/\ ret'.op = "copy" => CloneView' = StateView'
       /\ (clone # None /\ ret'.op \in {"add_rg_step", "check_fixed_point",
                                        "compute_action", "write"})
              => CloneView' = CloneView
       /\ (clone # None /\ ret'.op \in {"copy.add_rg_step",
                                        "copy.check_fixed_point", "copy.write"})
              => StateView' = StateView]_vars

----------------------------------------------------------------------------
(* The fixed point of a trajectory *)

\* the largest absolute change of the three couplings between the last two
\* states of the trajectory t
LargestChange(h, t) ==
    LET current  == h[t[Len(t)]]
        previous == h[t[Len(t) - 1]]
        changes  == {Abs(current.lambda_tilde - previous.lambda_tilde),
                     Abs(current.gamma_tilde - previous.gamma_tilde),
                     Abs(current.mu_tilde - previous.mu_tilde)}
    IN  CHOOSE m \in changes : \A c \in changes : c <= m

Converged(h, t, tolerance) == Len(t) >= 2 /\ LargestChange(h, t) < tolerance

\* a step of check_fixed_point(tolerance) on the state, and on its copy:
\* converged, it returns True and sets fixed_point to the last state;
\* otherwise it returns False and leaves fixed_point as it is
ChecksState ==
    ret'.op = "check_fixed_point" =>
        IF Converged(heap, trajectory, ret'.arg)
        THEN ret'.val = TRUE /\ fixed_point' = Some(trajectory[Len(trajectory)])
        ELSE ret'.val = FALSE /\ fixed_point' = fixed_point

ChecksClone ==
    ret'.op = "copy.check_fixed_point" =>
        IF Converged(heap, clone.val.trajectory, ret'.arg)
        THEN /\ ret'.val = TRUE
             /\ clone'.val.fixed_point =
                    Some(clone.val.trajectory[Len(clone.val.trajectory)])
        ELSE /\ ret'.val = FALSE
             /\ clone'.val.fixed_point = clone.val.fixed_point

\* the state's fixed_point, None so far, is set in this step; the same for
\* the copy, which may be made in this step
StateGetsFixedPoint == fixed_point = None /\ fixed_point' # None

CloneGetsFixedPoint ==
    /\ clone' # None
    /\ clone'.val.fixed_point # None
    /\ clone = None \/ clone.val.fixed_point = None

\* C26 as stated: check_fixed_point returns False and leaves fixed_point
\* unchanged on fewer than 2 states or when the largest change is not
\* strictly below the tolerance, and otherwise returns True and sets
\* fixed_point to the last state; and the fixed_point of any state is None
\* until a check on that state returns True
C26_FixedPointOnlyByCheck ==
    [][/\ ChecksState
       /\ ChecksClone
       /\ StateGetsFixedPoint =>
              ret'.op = "check_fixed_point" /\ ret'.val = TRUE
       /\ CloneGetsFixedPoint =>
              ret'.op = "copy.check_fixed_point" /\ ret'.val = TRUE]_vars

\* C26, amended: the same, except that a copy starts with the fixed_point
\* its original has when copy is called
C26_FixedPointByCheckOrCopy ==
    [][/\ ChecksState
       /\ ChecksClone
       /\ StateGetsFixedPoint =>
              ret'.op = "check_fixed_point" /\ ret'.val = TRUE
       /\ CloneGetsFixedPoint =>
              \/ ret'.op = "copy.check_fixed_point" /\ ret'.val = TRUE
              \/ ret'.op = "copy" /\ fixed_point # None]_vars

\* a check with tolerance 7 on two states whose largest change is 6 has
\* returned True and set the fixed point to the second state
C26_Witness ==
    /\ ret.op = "check_fixed_point"
    /\ ret.arg = 7
    /\ ret.val = TRUE
    /\ Len(trajectory) = 2
    /\ LargestChange(heap, trajectory) = 6
    /\ fixed_point = Some(trajectory[2])

----------------------------------------------------------------------------
(* The caller's trajectory under the inference calls *)

ModelOps ==
    {"forward", "predict_final_state", "predict_fixed_point", "predict_action",
     "predict_batch", "predict_trajectory"}

\* C29: a model operation leaves the caller's HolographicState as it is (the
\* same trajectory list of the same, unchanged states, metadata, fixed_point
\* and action), and predict_trajectory on a HolographicState returns another
\* object, whose states are none of the caller's and begin with copies of
\* the caller's
C29_CallsKeepTheState ==
    [][ret'.op \in ModelOps =>
          /\ heap' = heap
          /\ trajectory' = trajectory
          /\ metadata' = metadata
          /\ fixed_point' = fixed_point
          /\ action' = action
          /\ (/\ ret'.op = "predict_trajectory"
              /\ ret'.arg.state.type = "HolographicState"
              /\ ~IsErr(ret'.val))
                 => LET out == ret'.val.state
                    IN  /\ out.object = "copy"
                        /\ \A i \in DOMAIN out.trajectory :
                              out.trajectory[i] \notin DOMAIN heap
                        /\ \A i \in DOMAIN trajectory :
                              out.heap[out.trajectory[i]] = heap[trajectory[i]]]_vars

\* predict_trajectory has returned a trajectory one state longer than the
\* caller's, which has two states, a fixed point and an action
C29_Witness ==
    /\ ret.op = "predict_trajectory"
    /\ ret.arg.state = TheState
    /\ ~IsErr(ret.val)
    /\ Len(trajectory) = 2
    /\ Len(ret.val.state.trajectory) = 3
    /\ fixed_point = Some(trajectory[2])
    /\ action # None

----------------------------------------------------------------------------
(* The integration method *)

\* C30: integrate_rg_flow with a method other than 'euler' and 'rk4' raises
\* ValueError, whatever the initial state, the target scale and the step
\* count (0 included), and so returns no trajectory
C30_UnknownMethodRaises ==
    (ret.op = "integrate_rg_flow" /\ ret.arg.method \notin {"euler", "rk4"})
        => ret.val = Raise("ValueError")

----------------------------------------------------------------------------
(* The weights of two constructions *)

\* the classes whose constructor draws weights
WeightedClasses ==
    {"MultiHeadAttention", "HolographicEncoder", "ResonanceDecoder",
     "IRHTransformer"}

\* C23: two instances constructed with the same configuration hold the same
\* weights, whatever was drawn before the first and between the two (here:
\* one straight after the other)
C23_SameConfigSameWeights ==
    [][(/\ ret.op \in WeightedClasses
        /\ ret'.op = ret.op
        /\ ret'.arg = ret.arg
        /\ ~IsErr(ret.val)
        /\ ~IsErr(ret'.val))
           => ret'.val.obj = ret.val.obj]_vars

----------------------------------------------------------------------------
(* forward called concurrently *)

\* C21: whatever the interleaving of the forward calls of the threads on the
\* one model, every call that has returned has returned what forward returns
\* for its state when it runs alone
C21_ConcurrentForwardAsAlone ==
    \A t \in Threads :
        calls[t].pc = "returned" =>
            calls[t].value = IRHTransformer_forward(model, calls[t].state)

\* two calls on different states were under way together, and both have
\* returned predictions
C21_Witness ==
    \E t, u \in Threads :
        /\ t # u
        /\ calls[t].pc = "returned" /\ calls[u].pc = "returned"
        /\ calls[t].state # calls[u].state
        /\ ~IsErr(calls[t].value) /\ ~IsErr(calls[u].value)
        /\ calls[t].value # calls[u].value

----------------------------------------------------------------------------
(* The attention weights *)

Finite(x) == x.cls \in {"small", "huge"}

\* the edges of a call whose destination index is node
IncomingEdges(arg, node) ==
    {i \in 1..Len(arg.adjacency) : arg.adjacency[i][2] = node}

RECURSIVE SumOfNums(_, _, _)
SumOfNums(weights, edges, head) ==
    IF edges = {} THEN 0
    ELSE LET i == CHOOSE i \in edges : TRUE
         IN  weights[i][head].num + SumOfNums(weights, edges \ {i}, head)

\* the weights of the edges are quotients by one sum, and add up to 1
SumsToOne(weights, edges, head) ==
    /\ \A i \in edges : weights[i][head].cls = "quotient"
    /\ \A i, k \in edges : weights[i][head].den = weights[k][head].den
    /\ \A i \in edges : SumOfNums(weights, edges, head) = weights[i][head].den

ZeroRow(row) == \A j \in 1..Len(row) : row[j] = Small(0)

GraphAttentionReturned ==
    ret.op = "GraphAttention.forward" /\ ~IsErr(ret.val)

SameNodesEncoded ==
    /\ ret.op = "encode_graph" /\ before.op = "encode_graph"
    /\ ret.arg.enc = before.arg.enc
    /\ ret.arg.node_features = before.arg.node_features

AllWeightsOne(weights) ==
    \A i \in 1..Len(weights) : \A head \in 1..Len(weights[i]) :
        /\ weights[i][head].cls = "quotient"
        /\ weights[i][head].num = weights[i][head].den

AllLogitsFinite(logits) ==
    \A i \in 1..Len(logits) : \A head \in 1..Len(logits[i]) :
        Finite(logits[i][head])

====
